---- MODULE Spec2Model ----
(***************************************************************************)
(* MonetDB binary column codec and staging-directory bulk transfer         *)
(* (olap_benchmarks/dbs/monetdb, tsdb_benchmarks/monetdb).                 *)
(*                                                                         *)
(* Representation of data:                                                 *)
(*  - a byte is an integer 0..255, a file is a sequence of bytes;          *)
(*  - an optional value is None == <<>> or Some(x) == <<x>>;               *)
(*  - a machine integer of a numpy dtype with n bytes is the sequence of   *)
(*    its n base-256 digits, least significant first, the last digit       *)
(*    carrying the sign (-128..127) when the dtype is signed: the value is *)
(*    SUM digit[i] * 256^(i-1).  (64-bit values do not fit the checker's   *)
(*    integers, so every width uses the same digit form.)                  *)
(*  - a text value is the sequence of its Unicode code points.             *)
(***************************************************************************)
EXTENDS Integers, Sequences, FiniteSets, TLC

VARIABLES
    \* ---- codec harness: one column through write_* / read_* ----
    cpc,        \* "column" (a column to encode), "file" (a file to decode), "decoded"
    cdtype,     \* polars dtype of the column
    ccol,       \* the caller's column (sequence of optional values)
    cfile,      \* bytes of the column file
    cout,       \* result of the read: [ok |-> TRUE, col |-> ...] or [ok |-> FALSE, err |-> ...]
    cwrote,     \* TRUE when cfile was produced by the writer (FALSE: produced by the database)
    cimpl,      \* "binary": the codec functions called directly; "dispatch": through
                \* write_binary_column_data / read_binary_column_data
    cmeta       \* precision and scale of a Decimal dtype (precision 0: None)

codecVars == <<cpc, cdtype, ccol, cfile, cout, cwrote, cimpl, cmeta>>

VARIABLES
    \* ---- settings, connection, file system, database ----
    client_file_transfer,  \* MONETDB_SETTINGS.client_file_transfer
    handler,        \* connection.mapi.downloader/uploader: "none" or the handler's root
    attached,       \* number of handler attachments made on the connection
    prepared,       \* number of prepared statements allocated on the connection
    dirs,           \* names of the directories that exist under <root>/data
    files,          \* files[d][i]: the bytes of file i.bin of directory d
    dbTable,        \* the columns (bytes) the database loaded by the last COPY FROM
    \* ---- the bulk transfer call in progress ----
    op,             \* "none", "insert_olap", "insert_tsdb" or "fetch"
    tpc,            \* position of the call
    df,             \* insert: the caller's DataFrame (sequence of columns)
    commit,         \* insert: the commit argument
    schema,         \* fetch: the schema argument (a method name or a sequence of entries)
    dbQuery,        \* fetch: the columns the database produces for the query
    expanded_schema,\* fetch: the resolved schema
    temp_dir,       \* name of the staging directory of this call
    created,        \* TRUE once temp_dir.mkdir() of this call has succeeded
    column_files,   \* the file paths of this call, in order (column_files / output_files)
    copies,         \* the COPY commands issued by this call
    columns,        \* fetch: the decoded columns, <<name, series>> in insertion order
    pending,        \* the exception propagating out of the try block
    primary,        \* the first exception raised by a stage of the transfer
    raised,         \* the exception that reached the caller
    returned,       \* fetch: the returned DataFrame
    committed,      \* insert: con.commit() succeeded
    rmtree_calls,   \* number of shutil.rmtree calls of this call
    rmtree_failed,  \* shutil.rmtree raised
    logged          \* errors written to the log

VARIABLES
    \* ---- probe-row query rewriting: get_limit_query applied twice ----
    qpc,            \* number of get_limit_query calls made (0: none; "idle": no query)
    query,          \* the caller's query text
    probe,          \* get_limit_query(query)
    probe2          \* get_limit_query(probe)

queryVars == <<qpc, query, probe, probe2>>

VARIABLES
    \* ---- the metrics writer: callers, the two shared queues, the results database ----
    mpc,            \* mpc[p]: position of caller p ("idle": no caller)
    queue,          \* the request queue (manager.Queue), oldest message first
    result_queue,   \* the result queue (manager.Queue), oldest id first
    got,            \* got[p]: the id insert_benchmark returned to caller p (0: none yet)
    benchmark,      \* rows of the table benchmark, benchmark[id] the row of that id
    enqueued,       \* every message put on the request queue, in the order of the puts
    applied         \* every message the writer has applied, in the order applied

metricsVars == <<mpc, queue, result_queue, got, benchmark, enqueued, applied>>
auxVars == <<queryVars, metricsVars>>

connVars == <<client_file_transfer, handler, attached, prepared>>
fsVars == <<dirs, files>>
argVars == <<op, df, commit, schema, dbQuery>>
callVars == <<tpc, expanded_schema, temp_dir, created, column_files, copies, columns,
              pending, primary, raised, returned, committed, rmtree_calls, rmtree_failed>>
transferVars == <<connVars, fsVars, dbTable, argVars, callVars, logged>>

vars == <<codecVars, transferVars, auxVars>>

\* ---------------------------------------------------------------- bounds
MaxCol == 2        \* longest enumerated column
MaxStrLen == 2     \* longest enumerated text value (code points)
MaxFileLen == 4    \* longest enumerated raw text file (bytes)
MaxCols == 2       \* most columns of an enumerated table, schema or query result
MaxBlobLen == 2    \* longest enumerated blob (bytes)
MaxDecCol == 1     \* longest enumerated Decimal column
MaxTimeCol == 2    \* longest enumerated Date, Time or Datetime column
MaxQueryLen == 5   \* longest enumerated query text (symbols)
MaxCallers == 3    \* processes that share the metrics queues
MaxPrepared == 2   \* most prepared statements left allocated before a session stops calling

\* ---------------------------------------------------------------- basics
None == <<>>
Some(x) == <<x>>
IsNone(o) == o = <<>>

RECURSIVE Pow(_, _)
Pow(b, e) == IF e = 0 THEN 1 ELSE b * Pow(b, e - 1)

Last(s) == s[Len(s)]
Front(s) == SubSeq(s, 1, Len(s) - 1)

RECURSIVE Concat(_)
Concat(ss) == IF ss = <<>> THEN <<>> ELSE Head(ss) \o Concat(Tail(ss))

\* All sequences over S of length 0..n
SeqsUpTo(S, n) == UNION {[1..k -> S] : k \in 0..n}

\* ============================================================== numpy
\* polars dtypes handled by the numeric codec and their numpy dtypes
\* (floating-point dtypes are outside the model).
POLARS_NUMPY_TYPE_MAP ==
    [Int8 |-> "int8", Int16 |-> "int16", Int32 |-> "int32", Int64 |-> "int64",
     UInt8 |-> "uint8", UInt16 |-> "uint16", UInt32 |-> "uint32", UInt64 |-> "uint64",
     Boolean |-> "uint8"]

NoDtype == "none"

\* dict.get(dtype): the numpy dtype, or None
NumpyTypeGet(dtype) ==
    IF dtype \in DOMAIN POLARS_NUMPY_TYPE_MAP THEN POLARS_NUMPY_TYPE_MAP[dtype] ELSE NoDtype

SignedNp == {"int8", "int16", "int32", "int64"}
UnsignedNp == {"uint8", "uint16", "uint32", "uint64"}

\* np.dtype(x).itemsize
ItemSize(np) ==
    CASE np \in {"int8", "uint8"} -> 1
      [] np \in {"int16", "uint16"} -> 2
      [] np \in {"int32", "uint32"} -> 4
      [] np \in {"int64", "uint64"} -> 8

\* np.issubdtype(np_dtype, np.integer)
IsNpInteger(np) == np \in SignedNp \cup UnsignedNp

\* np.iinfo(np_dtype).min : -2^(w-1) for a signed dtype, 0 for an unsigned one
IInfoMin(np) ==
    [i \in 1..ItemSize(np) |-> IF i = ItemSize(np) /\ np \in SignedNp THEN -128 ELSE 0]

\* np.iinfo(np_dtype).max
IInfoMax(np) ==
    [i \in 1..ItemSize(np) |-> IF i = ItemSize(np) /\ np \in SignedNp THEN 127 ELSE 255]

\* the machine integer of dtype np whose value is the (small) integer v
NpInt(v, np) ==
    LET n == ItemSize(np)
        low(i) == IF i <= 4 THEN (v \div Pow(256, i - 1)) % 256
                  ELSE IF v < 0 THEN 255 ELSE 0
        top == IF n <= 4 THEN v \div Pow(256, n - 1) ELSE IF v < 0 THEN -1 ELSE 0
    IN [i \in 1..n |-> IF i = n THEN top ELSE low(i)]

\* the bytes of one element in memory, little-endian two's complement
\* (ndarray.tobytes of a one-element array)
ElemToBytes(x) == [i \in 1..Len(x) |-> x[i] % 256]

\* one element read from its bytes (np.frombuffer, one item)
ElemFromBytes(b, np) ==
    [i \in 1..Len(b) |->
        IF i = Len(b) /\ np \in SignedNp /\ b[i] >= 128 THEN b[i] - 256 ELSE b[i]]

\* ndarray.astype(np_dtype) of one element: C conversion between integer
\* widths (truncation of the bit pattern, or sign/zero extension)
AsType(x, np) ==
    LET bits(i) == IF i <= Len(x) THEN x[i] % 256
                   ELSE IF Last(x) < 0 THEN 255 ELSE 0
    IN ElemFromBytes([i \in 1..ItemSize(np) |-> bits(i)], np)

\* ndarray.tobytes()
ToBytes(values) == Concat([i \in 1..Len(values) |-> ElemToBytes(values[i])])

\* np.frombuffer(data, dtype): the items; requires a whole number of items
FromBufferOk(data, np) == Len(data) % ItemSize(np) = 0

FromBuffer(data, np) ==
    LET n == ItemSize(np)
    IN [k \in 1..(Len(data) \div n) |->
            ElemFromBytes(SubSeq(data, (k - 1) * n + 1, k * n), np)]

\* results of a writer / reader: a value, or the exception raised
Ok(v) == [ok |-> TRUE, val |-> v]
Raise(e) == [ok |-> FALSE, err |-> e]

\* ============================================================== numeric codec
BOOLEAN_NULL == 128

\* Series.fill_null(value)
FillNull(series, value) ==
    [i \in 1..Len(series) |-> IF IsNone(series[i]) THEN value ELSE series[i][1]]

\* Series.replace(old, None) on a series of present values
ReplaceWithNull(values, old) ==
    [i \in 1..Len(values) |-> IF values[i] = old THEN None ELSE Some(values[i])]

\* null written as 255 instead of 128
write_boolean_column_null_255(series) ==
    Ok(ToBytes([i \in 1..Len(series) |->
            IF IsNone(series[i]) THEN NpInt(255, "uint8")
            ELSE IF series[i][1] THEN NpInt(1, "uint8")
            ELSE NpInt(0, "uint8")]))

\* tsdb insert.py: the boolean column as uint8, null -> 128, true -> 1, false -> 0
write_boolean_column(series) ==
    Ok(ToBytes([i \in 1..Len(series) |->
            IF IsNone(series[i]) THEN NpInt(128, "uint8")
            ELSE IF series[i][1] THEN NpInt(1, "uint8")
            ELSE NpInt(0, "uint8")]))

\* nulls filled with 0 instead of the minimum value
WriteIntegerValuesZeroFill(series, np_dtype) ==
    LET filled == FillNull(series, NpInt(0, np_dtype))
    IN [i \in 1..Len(filled) |-> AsType(filled[i], np_dtype)]

\* the integer branch of write_numeric_column (lines 416-418)
WriteIntegerValues(series, np_dtype) ==
    LET sentinel == IInfoMin(np_dtype)
        filled == FillNull(series, sentinel)
    IN [i \in 1..Len(filled) |-> AsType(filled[i], np_dtype)]

write_numeric_column(series, dtype, np_dtype_arg) ==
    IF dtype = "Boolean"
    THEN Ok(ToBytes([i \in 1..Len(series) |->
                IF IsNone(series[i]) THEN NpInt(128, "uint8")
                ELSE IF series[i][1] THEN NpInt(1, "uint8")
                ELSE NpInt(0, "uint8")]))
    ELSE LET np_dtype == IF np_dtype_arg = NoDtype THEN NumpyTypeGet(dtype) ELSE np_dtype_arg
         IN IF np_dtype = NoDtype THEN Raise("ValueError")
            ELSE IF IsNpInteger(np_dtype) THEN Ok(ToBytes(WriteIntegerValues(series, np_dtype)))
            ELSE Raise("ValueError")

\* the sentinel of the signed integers is not replaced by null
ReadNullsBooleanOnly(values, dtype, np_dtype) ==
    IF dtype = "Boolean"
    THEN [i \in 1..Len(values) |->
            IF values[i] = NpInt(BOOLEAN_NULL, "uint8") THEN None
            ELSE Some(values[i] # NpInt(0, "uint8"))]
    ELSE [i \in 1..Len(values) |-> Some(values[i])]

\* the null handling of read_numeric_column (lines 384-390)
ReadNulls(values, dtype, np_dtype) ==
    IF dtype = "Boolean"
    THEN [i \in 1..Len(values) |->
            IF values[i] = NpInt(BOOLEAN_NULL, "uint8") THEN None
            ELSE Some(values[i] # NpInt(0, "uint8"))]
    ELSE IF dtype \in {"Int8", "Int16", "Int32", "Int64"}
    THEN ReplaceWithNull(values, IInfoMin(np_dtype))
    ELSE [i \in 1..Len(values) |-> Some(values[i])]

read_numeric_column(data, dtype, np_dtype_arg) ==
    LET np_dtype == IF np_dtype_arg = NoDtype THEN NumpyTypeGet(dtype) ELSE np_dtype_arg
    IN IF np_dtype = NoDtype THEN Raise("ValueError")
       ELSE IF ~FromBufferOk(data, np_dtype) THEN Raise("ValueError")
       ELSE Ok(ReadNulls(FromBuffer(data, np_dtype), dtype, np_dtype))

\* ============================================================== text codec
STRING_NULL_MARKER == <<128, 0>>

\* str.encode("utf-8") of one code point
Utf8EncodeChar(cp) ==
    IF cp < 128 THEN <<cp>>
    ELSE IF cp < 2048 THEN <<192 + (cp \div 64), 128 + (cp % 64)>>
    ELSE IF cp < 65536
    THEN <<224 + (cp \div 4096), 128 + ((cp \div 64) % 64), 128 + (cp % 64)>>
    ELSE <<240 + (cp \div 262144), 128 + ((cp \div 4096) % 64),
           128 + ((cp \div 64) % 64), 128 + (cp % 64)>>

\* str.encode("utf-8")
Utf8Encode(str) == Concat([i \in 1..Len(str) |-> Utf8EncodeChar(str[i])])

IsCont(b) == b >= 128 /\ b <= 191

\* the length of the well-formed UTF-8 sequence at the head of b, 0 if none
Utf8HeadLen(b) ==
    IF b[1] < 128 THEN 1
    ELSE IF b[1] >= 194 /\ b[1] <= 223 /\ Len(b) >= 2 /\ IsCont(b[2]) THEN 2
    ELSE IF b[1] >= 224 /\ b[1] <= 239 /\ Len(b) >= 3 /\ IsCont(b[2]) /\ IsCont(b[3])
            /\ (b[1] = 224 => b[2] >= 160) /\ (b[1] = 237 => b[2] <= 159) THEN 3
    ELSE IF b[1] >= 240 /\ b[1] <= 244 /\ Len(b) >= 4
            /\ IsCont(b[2]) /\ IsCont(b[3]) /\ IsCont(b[4])
            /\ (b[1] = 240 => b[2] >= 144) /\ (b[1] = 244 => b[2] <= 143) THEN 4
    ELSE 0

Utf8HeadChar(b, n) ==
    CASE n = 1 -> b[1]
      [] n = 2 -> (b[1] - 192) * 64 + (b[2] - 128)
      [] n = 3 -> (b[1] - 224) * 4096 + (b[2] - 128) * 64 + (b[3] - 128)
      [] n = 4 -> (b[1] - 240) * 262144 + (b[2] - 128) * 4096 + (b[3] - 128) * 64 + (b[4] - 128)

\* validity check of the binary -> string cast (pyarrow rejects invalid UTF-8)
RECURSIVE Utf8Valid(_)
Utf8Valid(b) ==
    IF b = <<>> THEN TRUE
    ELSE LET n == Utf8HeadLen(b)
         IN n > 0 /\ Utf8Valid(SubSeq(b, n + 1, Len(b)))

\* the code points of a valid UTF-8 byte string
RECURSIVE Utf8Decode(_)
Utf8Decode(b) ==
    IF b = <<>> THEN <<>>
    ELSE LET n == Utf8HeadLen(b)
         IN <<Utf8HeadChar(b, n)>> \o Utf8Decode(SubSeq(b, n + 1, Len(b)))

\* the terminator is left out after the null marker
write_string_column_bare_null(series) ==
    Ok(Concat([i \in 1..Len(series) |->
            IF IsNone(series[i]) THEN <<128>>
            ELSE Utf8Encode(series[i][1]) \o <<0>>]))

write_string_column(series) ==
    Ok(Concat([i \in 1..Len(series) |->
            IF IsNone(series[i]) THEN STRING_NULL_MARKER
            ELSE Utf8Encode(series[i][1]) \o <<0>>]))

\* np.flatnonzero(data == 0x00): the positions of the terminators, ascending
NulPositions(data) == {i \in 1..Len(data) : data[i] = 0}

\* every record that starts with 0x80 is taken for null, whatever its length
RECURSIVE ScanRecordsLoose(_, _)
ScanRecordsLoose(data, start) ==
    LET later == {e \in NulPositions(data) : e >= start}
    IN IF later = {} THEN <<>>
       ELSE LET end == CHOOSE e \in later : \A f \in later : e <= f
                rec == IF end - start >= 1 /\ data[start] = 128 THEN None
                       ELSE IF end = start THEN Some(<<>>)
                       ELSE Some(SubSeq(data, start, end - 1))
            IN <<rec>> \o ScanRecordsLoose(data, end + 1)

\* the loop of read_string_column (lines 263-274): one optional byte string
\* per terminator; bytes after the last terminator are not visited
RECURSIVE ScanRecords(_, _)
ScanRecords(data, start) ==
    LET later == {e \in NulPositions(data) : e >= start}
    IN IF later = {} THEN <<>>
       ELSE LET end == CHOOSE e \in later : \A f \in later : e <= f
                rec == IF end - start = 1 /\ data[start] = 128 THEN None
                       ELSE IF end = start THEN Some(<<>>)
                       ELSE Some(SubSeq(data, start, end - 1))
            IN <<rec>> \o ScanRecords(data, end + 1)

\* pa.compute.cast(binary -> string): fails on a value that is not UTF-8
CastToString(result) ==
    IF \E i \in 1..Len(result) : ~IsNone(result[i]) /\ ~Utf8Valid(result[i][1])
    THEN Raise("ArrowInvalid")
    ELSE Ok([i \in 1..Len(result) |->
                IF IsNone(result[i]) THEN None ELSE Some(Utf8Decode(result[i][1]))])

read_string_column(data) == CastToString(ScanRecords(data, 1))

\* ============================================================== blob codec
\* (0xFFFFFFFFFFFFFFFF).to_bytes(8, byteorder="little")
BLOB_NULL_MARKER == [i \in 1..8 |-> 255]

\* length.to_bytes(8, byteorder="little") of a length below 2^24
LengthToBytes(length) ==
    [i \in 1..8 |-> IF i <= 3 THEN (length \div Pow(256, i - 1)) % 256 ELSE 0]

\* the null marker is written as a length prefix of zero
write_blob_column_null_as_empty(series) ==
    Ok(Concat([i \in 1..Len(series) |->
            IF IsNone(series[i]) THEN LengthToBytes(0)
            ELSE LengthToBytes(Len(series[i][1])) \o series[i][1]]))

write_blob_column(series) ==
    Ok(Concat([i \in 1..Len(series) |->
            IF IsNone(series[i]) THEN BLOB_NULL_MARKER
            ELSE LengthToBytes(Len(series[i][1])) \o series[i][1]]))

\* the loop of read_blob_column (lines 327-343) from a zero-based offset.
\* int.from_bytes of the prefix is kept exact below 2^24; a larger length
\* that is not the all-ones marker exceeds the length of any file here.
RECURSIVE ReadBlobRecords(_, _)
ReadBlobRecords(data, offset) ==
    IF ~(offset + 8 <= Len(data)) THEN Ok(<<>>)
    ELSE LET length_bytes == SubSeq(data, offset + 1, offset + 8)
             huge == \E i \in 4..8 : length_bytes[i] # 0
             length == length_bytes[1] + 256 * length_bytes[2] + 65536 * length_bytes[3]
             off == offset + 8
         IN IF length_bytes = BLOB_NULL_MARKER
            THEN LET rest == ReadBlobRecords(data, off)
                 IN IF rest.ok THEN Ok(<<None>> \o rest.val) ELSE rest
            ELSE IF huge \/ off + length > Len(data)
            THEN Raise("ValueError")
            ELSE LET rest == ReadBlobRecords(data, off + length)
                 IN IF rest.ok
                    THEN Ok(<<Some(SubSeq(data, off + 1, off + length))>> \o rest.val)
                    ELSE rest

read_blob_column(data) == ReadBlobRecords(data, 0)

\* ============================================================== decimal codec
\* A decimal value is its sign and the magnitude of its unscaled integer (the
\* value times 10^scale of its dtype), the magnitude as 16 base-256 digits,
\* least significant first (polars keeps the unscaled integer in 128 bits).
MONETDB_DEFAULT_DECIMAL_PRECISION == 18
MONETDB_DEFAULT_DECIMAL_SCALE == 3
MONETDB_MAX_DECIMAL_SCALE == 3

\* the magnitude of a (small) natural number
Mag(v) == [i \in 1..16 |-> IF i <= 3 THEN (v \div Pow(256, i - 1)) % 256 ELSE 0]

\* x * m + carry on magnitudes, m small
RECURSIVE MagMul(_, _, _)
MagMul(x, m, carry) ==
    IF x = <<>> THEN <<>>
    ELSE LET t == Head(x) * m + carry
         IN <<t % 256>> \o MagMul(Tail(x), m, t \div 256)

\* x \div m on magnitudes, m small; rem is the remainder carried down from
\* the digits above
RECURSIVE MagDiv(_, _, _)
MagDiv(x, m, rem) ==
    IF x = <<>> THEN <<>>
    ELSE LET t == rem * 256 + Last(x)
         IN MagDiv(Front(x), m, t % m) \o <<t \div m>>

\* x * 10^k and x \div 10^k
RECURSIVE MagTimes10(_, _)
MagTimes10(x, k) == IF k = 0 THEN x ELSE MagTimes10(MagMul(x, 10, 0), k - 1)

RECURSIVE MagDiv10(_, _)
MagDiv10(x, k) == IF k = 0 THEN x ELSE MagDiv10(MagDiv(x, 10, 0), k - 1)

\* 10^k - 1
RECURSIVE MagNines(_)
MagNines(k) == IF k = 0 THEN Mag(0) ELSE MagMul(MagNines(k - 1), 10, 9)

Dec(neg, mag) == [neg |-> neg /\ mag # Mag(0), mag |-> mag]

\* the magnitude is at most 2^63 - 1, or exactly 2^63 for a negative value
FitsInt64(d) ==
    /\ \A i \in 9..16 : d.mag[i] = 0
    /\ \/ d.mag[8] < 128
       \/ d.neg /\ d.mag[8] = 128 /\ \A i \in 1..7 : d.mag[i] = 0

\* two's complement negation of n bytes
RECURSIVE NegateBytes(_, _)
NegateBytes(b, carry) ==
    IF b = <<>> THEN <<>>
    ELSE LET t == (255 - Head(b)) + carry
         IN <<t % 256>> \o NegateBytes(Tail(b), t \div 256)

\* the Int64 element of a value that fits
ToInt64(d) ==
    LET low == SubSeq(d.mag, 1, 8)
    IN ElemFromBytes(IF d.neg THEN NegateBytes(low, 1) ELSE low, "int64")

\* the value of a signed machine integer
FromInt(x) ==
    LET b == [i \in 1..16 |-> IF i <= Len(x) THEN x[i] % 256
                               ELSE IF Last(x) < 0 THEN 255 ELSE 0]
    IN IF Last(x) < 0 THEN Dec(TRUE, NegateBytes(b, 1)) ELSE Dec(FALSE, b)

\* decimal_numpy_dtype(precision): the numpy dtype, or NoDtype when it raises
decimal_numpy_dtype(precision) ==
    IF 1 <= precision /\ precision <= 2 THEN "int8"
    ELSE IF 3 <= precision /\ precision <= 4 THEN "int16"
    ELSE IF 5 <= precision /\ precision <= 9 THEN "int32"
    ELSE IF 10 <= precision /\ precision <= 18 THEN "int64"
    ELSE NoDtype

\* numpy_to_polars_int_dtype(np_dtype)
numpy_to_polars_int_dtype(np_dtype) ==
    CASE np_dtype = "int8" -> "Int8"
      [] np_dtype = "int16" -> "Int16"
      [] np_dtype = "int32" -> "Int32"
      [] np_dtype = "int64" -> "Int64"

\* x or default, for an integer that may be None (written 0) or 0
OrDefault(x, default) == IF x # 0 THEN x ELSE default

\* scale = dtype.scale or MONETDB_DEFAULT_DECIMAL_SCALE, in both directions
DecimalCodecScale(dtype) == OrDefault(dtype.scale, MONETDB_DEFAULT_DECIMAL_SCALE)

\* get_monetdb_type(dtype) of a Decimal instance: the precision and scale of
\* "decimal(p,s)", the type of the database column
get_monetdb_type(dtype) ==
    [precision |-> OrDefault(dtype.precision, MONETDB_DEFAULT_DECIMAL_PRECISION),
     scale |-> dtype.scale]

\* (series * 10**scale).cast(pl.Int64) of one element of a series whose
\* dtype has the scale series_scale: the product is exact, the cast drops the
\* fraction (toward zero)
ScaledInt(d, scale, series_scale) ==
    Dec(d.neg, MagDiv10(MagTimes10(d.mag, scale), series_scale))

\* write_decimal_column with the order of its steps exchanged: the nulls are
\* filled with the sentinel first, the filled series is multiplied by
\* 10**scale and cast to Int64, and the result is stored in np_dtype
write_decimal_column_null_first(series, dtype) ==
    LET precision == OrDefault(dtype.precision, MONETDB_DEFAULT_DECIMAL_PRECISION)
        scale == DecimalCodecScale(dtype)
        np_dtype == decimal_numpy_dtype(precision)
        sentinel == FromInt(IInfoMin(np_dtype))
        scaled(i) == IF IsNone(series[i])
                     THEN Dec(sentinel.neg, MagTimes10(sentinel.mag, scale))
                     ELSE ScaledInt(series[i][1], scale, dtype.scale)
    IN IF np_dtype = NoDtype THEN Raise("ValueError")
       ELSE IF \E i \in 1..Len(series) : ~FitsInt64(scaled(i))
       THEN Raise("InvalidOperationError")
       ELSE write_numeric_column(
                [i \in 1..Len(series) |-> Some(ToInt64(scaled(i)))], "Int64", np_dtype)

\* write_decimal_column(series, path, dtype); dtype is [precision, scale],
\* precision 0 standing for None.  The cast to Int64 is strict: it raises
\* when a product is outside the 64-bit range.
write_decimal_column(series, dtype) ==
    LET precision == OrDefault(dtype.precision, MONETDB_DEFAULT_DECIMAL_PRECISION)
        scale == DecimalCodecScale(dtype)
        np_dtype == decimal_numpy_dtype(precision)
        scaled(i) == ScaledInt(series[i][1], scale, dtype.scale)
    IN IF np_dtype = NoDtype THEN Raise("ValueError")
       ELSE IF \E i \in 1..Len(series) : ~IsNone(series[i]) /\ ~FitsInt64(scaled(i))
       THEN Raise("InvalidOperationError")
       ELSE write_numeric_column(
                [i \in 1..Len(series) |->
                    IF IsNone(series[i]) THEN None ELSE Some(ToInt64(scaled(i)))],
                "Int64", np_dtype)

\* x <= y on magnitudes
RECURSIVE MagLeq(_, _)
MagLeq(x, y) ==
    IF x = <<>> THEN TRUE
    ELSE IF Last(x) # Last(y) THEN Last(x) < Last(y)
    ELSE MagLeq(Front(x), Front(y))

\* (values.cast(Decimal(18, 3)) / 10**scale).cast(dtype) of one element n:
\* the value n / 10^scale as an unscaled integer of the scale of dtype.
\* It is one value when n fits Decimal(18, 3), the quotient is exact at the
\* scale of dtype and fits its precision.  Otherwise the polars release
\* decides between failing the cast, a null, and a quotient cut or rounded.
DecimalQuotient(n, scale, dtype) ==
    MagDiv10(MagTimes10(n.mag, dtype.scale), scale)

DecimalExact(n, scale, dtype) ==
    LET q == DecimalQuotient(n, scale, dtype)
        digits == IF dtype.precision = 0 THEN 38 ELSE dtype.precision
    IN /\ MagLeq(n.mag, MagNines(MONETDB_DEFAULT_DECIMAL_PRECISION
                                   - MONETDB_DEFAULT_DECIMAL_SCALE))
       /\ MagTimes10(q, scale) = MagTimes10(n.mag, dtype.scale)
       /\ digits <= 18 => MagLeq(q, MagNines(digits))

DecimalElementOutcomes(n, scale, dtype) ==
    LET q == DecimalQuotient(n, scale, dtype)
    IN IF DecimalExact(n, scale, dtype) THEN {Some(Dec(n.neg, q))}
       ELSE {Some(Dec(n.neg, q)), Some(Dec(n.neg, MagMul(q, 1, 1))), None}

\* the columns the elementwise conversion can give
RECURSIVE DecimalColumnOutcomes(_, _, _)
DecimalColumnOutcomes(values, scale, dtype) ==
    IF values = <<>> THEN {<<>>}
    ELSE LET heads == IF IsNone(Head(values)) THEN {None}
                      ELSE DecimalElementOutcomes(FromInt(Head(values)[1]), scale, dtype)
         IN {<<h>> \o rest : h \in heads,
                              rest \in DecimalColumnOutcomes(Tail(values), scale, dtype)}

\* read_decimal_column(path, dtype): the results the call can have
read_decimal_column(data, dtype) ==
    LET precision == OrDefault(dtype.precision, MONETDB_DEFAULT_DECIMAL_PRECISION)
        scale == DecimalCodecScale(dtype)
        np_dtype == decimal_numpy_dtype(precision)
    IN IF np_dtype = NoDtype THEN {Raise("ValueError")}
       ELSE LET values == read_numeric_column(data, numpy_to_polars_int_dtype(np_dtype), np_dtype)
            IN IF ~values.ok THEN {values}
               ELSE {Ok(c) : c \in DecimalColumnOutcomes(values.val, scale, dtype)}
                    \cup (IF \A i \in 1..Len(values.val) :
                                IsNone(values.val[i])
                                \/ DecimalExact(FromInt(values.val[i][1]), scale, dtype)
                          THEN {}
                          ELSE {Raise("InvalidOperationError")})

\* ============================================================== date, time, datetime codec
\* A Date is the record of its calendar fields [year, month, day]; a Time is
\* [hour, minute, second, nanosecond] (polars: nanoseconds since midnight);
\* a Datetime has the fields of both.  An integer field of a file record is
\* its bytes, least significant first.

\* a value stored into a u1 field (numpy assignment keeps the low byte)
U8(v) == v % 256
\* a value stored into the <i2 field year (numpy assignment keeps the low 16 bits)
Int16Bytes(v) == <<v % 256, (v \div 256) % 256>>
Int16Of(b) == LET u == b[1] + 256 * b[2] IN IF u >= 32768 THEN u - 65536 ELSE u
\* a value stored into the <u4 field ms
UInt32Bytes(v) == <<v % 256, (v \div 256) % 256, (v \div 65536) % 256, (v \div 16777216) % 256>>
UInt32Of(b) == b[1] + 256 * b[2] + 65536 * b[3] + 16777216 * b[4]

\* binary.py DATE_NULL_RECORD, TIME_NULL_RECORD, DATETIME_NULL_RECORD
\* (0xFFFFFFFF is given by its four bytes)
DATE_NULL_RECORD == [day |-> 255, month |-> 255, year |-> -1]
TIME_NULL_RECORD ==
    [ms |-> <<255, 255, 255, 255>>, seconds |-> 255, minutes |-> 255, hours |-> 255,
     padding |-> 255]
DATETIME_NULL_RECORD ==
    [ms |-> <<255, 255, 255, 255>>, seconds |-> 255, minutes |-> 255, hours |-> 255,
     padding |-> 255, day |-> 255, month |-> 255, year |-> -1]

\* data.tobytes() of one record of MONETDB_DATE_RECORD_TYPE / _TIME_ / _DATETIME_
DateRecordBytes(rec) == <<U8(rec.day), U8(rec.month)>> \o Int16Bytes(rec.year)
TimeRecordBytes(rec) == rec.ms \o <<U8(rec.seconds), U8(rec.minutes), U8(rec.hours), U8(rec.padding)>>
DatetimeRecordBytes(rec) == TimeRecordBytes(rec) \o DateRecordBytes(rec)

\* dt.millisecond() of a Time or Datetime
Millisecond(v) == v.nanosecond \div 1000000

\* binary.py write_date_column
write_date_column(series) ==
    Ok(Concat([i \in 1..Len(series) |->
        IF IsNone(series[i]) THEN DateRecordBytes(DATE_NULL_RECORD)
        ELSE DateRecordBytes([day |-> series[i][1].day, month |-> series[i][1].month,
                              year |-> series[i][1].year])]))

\* np.frombuffer(data, dtype=record type): the records of itemsize bytes
RecordsOk(data, itemsize) == Len(data) % itemsize = 0
Records(data, itemsize) ==
    [k \in 1..(Len(data) \div itemsize) |-> SubSeq(data, (k - 1) * itemsize + 1, k * itemsize)]

\* binary.py read_date_column: null when year == -1
read_date_column(data) ==
    IF ~RecordsOk(data, 4) THEN Raise("ValueError")
    ELSE LET records == Records(data, 4)
         IN Ok([k \in 1..Len(records) |->
                LET year == Int16Of(SubSeq(records[k], 3, 4))
                IN IF year = -1 THEN None
                   ELSE Some([year |-> year, month |-> records[k][2], day |-> records[k][1]])])

\* binary.py write_time_column, with a null written as a record of zeros
write_time_column_null_zero(series) ==
    Ok(Concat([i \in 1..Len(series) |->
        IF IsNone(series[i]) THEN [j \in 1..8 |-> 0]
        ELSE TimeRecordBytes([ms |-> UInt32Bytes(Millisecond(series[i][1])),
                              seconds |-> series[i][1].second,
                              minutes |-> series[i][1].minute,
                              hours |-> series[i][1].hour, padding |-> 0])]))

\* binary.py write_time_column
write_time_column(series) ==
    Ok(Concat([i \in 1..Len(series) |->
        IF IsNone(series[i]) THEN TimeRecordBytes(TIME_NULL_RECORD)
        ELSE TimeRecordBytes([ms |-> UInt32Bytes(Millisecond(series[i][1])),
                              seconds |-> series[i][1].second,
                              minutes |-> series[i][1].minute,
                              hours |-> series[i][1].hour, padding |-> 0])]))

\* the Time of a number of milliseconds since midnight (nanos cast to pl.Time)
TimeOfMillis(t) ==
    [hour |-> t \div 3600000, minute |-> (t \div 60000) % 60, second |-> (t \div 1000) % 60,
     nanosecond |-> (t % 1000) * 1000000]

\* binary.py read_time_column
read_time_column(data) ==
    IF ~RecordsOk(data, 8) THEN Raise("ValueError")
    ELSE LET records == Records(data, 8)
         IN Ok([k \in 1..Len(records) |->
                LET ms == SubSeq(records[k], 1, 4)
                    seconds == records[k][5]
                    minutes == records[k][6]
                    hours == records[k][7]
                    is_null == \/ ms = <<255, 255, 255, 255>>
                               \/ seconds >= 60
                               \/ minutes >= 60
                               \/ hours >= 24
                IN IF is_null THEN None
                   ELSE Some(TimeOfMillis(hours * 3600000 + minutes * 60000
                                          + seconds * 1000 + UInt32Of(ms)))])

\* the time units of pl.Datetime
DatetimeMs == "Datetime(ms)"
DatetimeUs == "Datetime(us)"
DatetimeDtypes == {DatetimeMs, DatetimeUs}

\* series.cast(pl.Datetime("ms")): the part below the millisecond is dropped
\* (datetimes from 1970 on: the timestamp is not negative)
CastDatetimeMs(v) == [v EXCEPT !.nanosecond = (@ \div 1000000) * 1000000]

\* binary.py write_datetime_column
write_datetime_column(series) ==
    Ok(Concat([i \in 1..Len(series) |->
        IF IsNone(series[i]) THEN DatetimeRecordBytes(DATETIME_NULL_RECORD)
        ELSE LET dt == CastDatetimeMs(series[i][1])
             IN DatetimeRecordBytes([ms |-> UInt32Bytes(Millisecond(dt)),
                                     seconds |-> dt.second, minutes |-> dt.minute,
                                     hours |-> dt.hour, padding |-> 0,
                                     day |-> dt.day, month |-> dt.month,
                                     year |-> dt.year])]))

\* binary.py read_datetime_column: null when year == -1; the cast from the
\* millisecond unit to the unit of dtype is exact
read_datetime_column(data, dtype) ==
    IF ~RecordsOk(data, 12) THEN Raise("ValueError")
    ELSE LET records == Records(data, 12)
         IN Ok([k \in 1..Len(records) |->
                LET year == Int16Of(SubSeq(records[k], 11, 12))
                    microsecond == UInt32Of(SubSeq(records[k], 1, 4)) * 1000
                IN IF year = -1 THEN None
                   ELSE Some([year |-> year, month |-> records[k][10], day |-> records[k][9],
                              hour |-> records[k][7], minute |-> records[k][6],
                              second |-> records[k][5],
                              nanosecond |-> microsecond * 1000])])

\* ============================================================== dispatch
\* tsdb insert.py write_binary_column_data: the writer chosen by the dtype.
\* (Its write_numeric_column is the integer branch of the one above with no
\* np_dtype argument; the float dtypes do not occur.)
write_binary_column_data(series, dtype) ==
    CASE dtype = "Boolean" -> write_boolean_column(series)
      [] dtype \in {"Int8", "Int16", "Int32", "Int64",
                    "UInt8", "UInt16", "UInt32", "UInt64"} ->
            write_numeric_column(series, dtype, NoDtype)
      [] dtype = "String" -> write_string_column(series)
      [] dtype = "Date" -> write_date_column(series)
      [] dtype = "Time" -> write_time_column(series)
      [] dtype \in DatetimeDtypes -> write_datetime_column(series)
      [] dtype = "Binary" -> write_blob_column(series)
      [] OTHER -> Raise("ValueError")

\* tsdb fetch.py read_binary_column_data: the reader chosen by the dtype
read_binary_column_data(data, dtype) ==
    CASE dtype = "Time" -> read_time_column(data)
      [] dtype = "Date" -> read_date_column(data)
      [] dtype \in DatetimeDtypes -> read_datetime_column(data, dtype)
      [] dtype = "String" -> read_string_column(data)
      [] dtype = "Binary" -> read_blob_column(data)
      [] OTHER -> read_numeric_column(data, dtype, NoDtype)

\* ============================================================== codec harness
\* One column is written to its file and read back, or a file produced by the
\* database is read.
SignedDtypes == {"Int8", "Int16", "Int32", "Int64"}
UnsignedDtypes == {"UInt8", "UInt16", "UInt32", "UInt64"}
\* Int128 (hugeint) stands for the dtypes that have no codec
CodecDtypes == SignedDtypes \cup UnsignedDtypes \cup {"Boolean", "String", "Binary", "Int128"}

\* code points of the enumerated text values: NUL, 'a', U+0080
Chars == {0, 97, 128}
\* bytes of the enumerated database-produced files
RawBytes == {0, 1, 97, 128, 194}

\* bytes of the enumerated blobs
BlobBytes == {0, 255}

\* database-produced blob files: whole records, then nothing or a cut record
\* (a cut length prefix, a payload shorter than declared, an oversized length)
BlobRecords == {BLOB_NULL_MARKER, LengthToBytes(0), LengthToBytes(1) \o <<255>>}
BlobTails ==
    {<<>>, <<1, 0, 0>>, <<255, 255, 255>>, LengthToBytes(2) \o <<7>>,
     [i \in 1..8 |-> IF i = 8 THEN 1 ELSE 0]}
BlobFiles ==
    {Concat(recs) \o tail : recs \in SeqsUpTo(BlobRecords, MaxCol), tail \in BlobTails}

\* the enumerated database-produced files of a dtype
RawFiles(dtype) ==
    IF dtype = "Binary" THEN BlobFiles ELSE SeqsUpTo(RawBytes, MaxFileLen)

MinPlusOne(np) == [IInfoMin(np) EXCEPT ![1] = @ + 1]
SignBit(np) == [i \in 1..ItemSize(np) |-> IF i = ItemSize(np) THEN 128 ELSE 0]

Values(dtype) ==
    CASE dtype \in SignedDtypes ->
            LET np == POLARS_NUMPY_TYPE_MAP[dtype]
            IN {IInfoMin(np), MinPlusOne(np), NpInt(-5, np), NpInt(-1, np),
                NpInt(0, np), NpInt(1, np), IInfoMax(np)}
      [] dtype \in UnsignedDtypes ->
            LET np == POLARS_NUMPY_TYPE_MAP[dtype]
            IN {NpInt(0, np), NpInt(1, np), SignBit(np), IInfoMax(np)}
      [] dtype = "Boolean" -> {TRUE, FALSE}
      [] dtype = "String" -> SeqsUpTo(Chars, MaxStrLen)
      [] dtype = "Binary" -> SeqsUpTo(BlobBytes, MaxBlobLen)
      [] OTHER -> {}

Optional(S) == {None} \cup {Some(v) : v \in S}

\* the spec's worked example: the column [1, null, -5]
ExampleIntColumn(dtype) ==
    <<Some(NpInt(1, POLARS_NUMPY_TYPE_MAP[dtype])), None,
      Some(NpInt(-5, POLARS_NUMPY_TYPE_MAP[dtype]))>>
ExampleTextColumn == <<Some(<<>>), None, Some(<<97, 98>>)>>
ExampleBlobColumn == <<None, Some(<<>>), Some(<<0, 255>>)>>

Columns(dtype) ==
    SeqsUpTo(Optional(Values(dtype)), MaxCol)
    \cup (IF dtype \in SignedDtypes THEN {ExampleIntColumn(dtype)} ELSE {})
    \cup (IF dtype = "String" THEN {ExampleTextColumn} ELSE {})
    \cup (IF dtype = "Binary" THEN {ExampleBlobColumn} ELSE {})

NoResult == [ok |-> FALSE, err |-> "not run"]
NoMeta == [precision |-> 0, scale |-> 0]

\* Text and blobs go through the dispatchers only: these call the one
\* write_string_column / read_string_column, write_blob_column / read_blob_column.
CodecInit ==
    /\ cout = NoResult
    /\ cwrote = FALSE
    /\ \/ /\ cpc = "column"
          /\ cdtype \in CodecDtypes
          /\ ccol \in Columns(cdtype)
          /\ cfile = <<>>
       \/ /\ cpc = "file"
          /\ cdtype \in {"String", "Boolean", "Int8", "Binary"}
          /\ ccol = <<>>
          /\ cfile \in RawFiles(cdtype)
    /\ cimpl \in IF cdtype \in {"String", "Binary"} THEN {"dispatch"} ELSE {"binary", "dispatch"}
    /\ cmeta = NoMeta

\* Decimal dtypes: every storage width, the first unsupported precision, the
\* largest precision of polars, no precision; the scales up to the maximum
DecimalPrecisions == {0, 1, 2, 3, 4, 5, 9, 10, 18, 19, 38}
DecimalTypes ==
    {[precision |-> p, scale |-> sc] :
        p \in DecimalPrecisions, sc \in 0..MONETDB_MAX_DECIMAL_SCALE} \ {NoMeta}

\* values of a Decimal dtype: zero, one, sixteen and the largest, of both
\* signs, as far as the precision holds them (at most 18 digits here)
DecimalValues(dtype) ==
    LET digits == IF dtype.precision \in 1..18 THEN dtype.precision ELSE 18
    IN {Dec(neg, m) : neg \in BOOLEAN,
                      m \in {x \in {Mag(0), Mag(1), Mag(16), MagNines(digits)} :
                                MagLeq(x, MagNines(digits))}}

DecimalInit ==
    /\ cout = NoResult
    /\ cwrote = FALSE
    /\ cpc = "column"
    /\ cdtype = "Decimal"
    /\ cmeta \in DecimalTypes
    /\ ccol \in SeqsUpTo(Optional(DecimalValues(cmeta)), MaxDecCol)
    /\ cfile = <<>>
    /\ cimpl = "binary"

\* Date, Time and Datetime dtypes.  Years: -1 (2 BC), 1, the epoch year, a
\* leap year, 9999, and 65535 (beyond the 16 bits of the year field).
TemporalDtypes == {"Date", "Time", DatetimeMs, DatetimeUs}
Years == {-1, 1, 1970, 2024, 9999, 65535}
Dates ==
    {[year |-> y, month |-> md[1], day |-> md[2]] : y \in Years, md \in {<<1, 1>>, <<12, 31>>}}
    \cup {[year |-> 2024, month |-> 2, day |-> 29]}
\* times of day with a whole number of milliseconds; with nanoseconds
Times(unit) ==
    {[hour |-> 0, minute |-> 0, second |-> 0, nanosecond |-> 0],
     [hour |-> 12, minute |-> 34, second |-> 56, nanosecond |-> 789000000],
     [hour |-> 23, minute |-> 59, second |-> 59, nanosecond |-> 999000000]}
    \cup (IF unit = "ns"
          THEN {[hour |-> 0, minute |-> 0, second |-> 0, nanosecond |-> 1],
                [hour |-> 23, minute |-> 59, second |-> 59, nanosecond |-> 999999999]}
          ELSE {})
\* (a datetime before 1970 has a whole number of milliseconds)
Datetimes(unit) ==
    {[year |-> d.year, month |-> d.month, day |-> d.day, hour |-> t.hour,
      minute |-> t.minute, second |-> t.second, nanosecond |-> t.nanosecond] :
        d \in {x \in Dates : x.day = 1 \/ x.month = 2},
        t \in {[hour |-> 0, minute |-> 0, second |-> 0, nanosecond |-> 0],
               [hour |-> 23, minute |-> 59, second |-> 59, nanosecond |-> 999000000]}}
    \cup (IF unit = "us"
          THEN {[year |-> 2024, month |-> 2, day |-> 29, hour |-> 12, minute |-> 34,
                 second |-> 56, nanosecond |-> 789012000]}
          ELSE {})
TemporalValues(dtype) ==
    CASE dtype = "Date" -> Dates
      [] dtype = "Time" -> Times("ns")
      [] dtype = DatetimeMs -> Datetimes("ms")
      [] dtype = DatetimeUs -> Datetimes("us")

TemporalInit ==
    /\ cout = NoResult
    /\ cwrote = FALSE
    /\ cpc = "column"
    /\ cdtype \in TemporalDtypes
    /\ ccol \in SeqsUpTo(Optional(TemporalValues(cdtype)), MaxTimeCol)
    /\ cfile = <<>>
    /\ cimpl \in {"binary", "dispatch"}
    /\ cmeta = NoMeta

\* the writer the harness calls
Writer(series, dtype) ==
    IF cimpl = "dispatch" THEN write_binary_column_data(series, dtype)
    ELSE CASE dtype = "Decimal" -> write_decimal_column(series, cmeta)
           [] dtype = "Date" -> write_date_column(series)
           [] dtype = "Time" -> write_time_column(series)
           [] dtype \in DatetimeDtypes -> write_datetime_column(series)
           [] OTHER -> write_numeric_column(series, dtype, NoDtype)

\* the reader the harness calls
Reader(data, dtype) ==
    IF cimpl = "dispatch" THEN read_binary_column_data(data, dtype)
    ELSE CASE dtype = "Date" -> read_date_column(data)
           [] dtype = "Time" -> read_time_column(data)
           [] dtype \in DatetimeDtypes -> read_datetime_column(data, dtype)
           [] OTHER -> read_numeric_column(data, dtype, NoDtype)

\* the results the read can have
ReaderOutcomes(data, dtype) ==
    IF cimpl = "binary" /\ dtype = "Decimal" THEN read_decimal_column(data, cmeta)
    ELSE {Reader(data, dtype)}

WriteColumn ==
    /\ cpc = "column"
    /\ LET r == Writer(ccol, cdtype)
       IN IF r.ok
          THEN /\ cfile' = r.val
               /\ cpc' = "file"
               /\ cwrote' = TRUE
               /\ cout' = cout
          ELSE /\ cout' = r
               /\ cpc' = "failed"
               /\ UNCHANGED <<cfile, cwrote>>
    /\ UNCHANGED <<cdtype, ccol, cimpl, cmeta, transferVars, auxVars>>

ReadColumn ==
    /\ cpc = "file"
    /\ cout' \in ReaderOutcomes(cfile, cdtype)
    /\ cpc' = "decoded"
    /\ UNCHANGED <<cdtype, ccol, cfile, cwrote, cimpl, cmeta, transferVars, auxVars>>


\* ============================================================== probe-row query
\* A query text is a sequence of symbols: "a" (a character that is neither
\* whitespace, a semicolon nor a digit), " " (a whitespace character), ";",
\* "1" and "5" (digits), and "limit" (the word, in any letter case, with no
\* word character on either side).
QuerySymbols == {"a", " ", ";", "limit", "1", "5"}
Digits == {"1", "5"}

\* str.rstrip(): trailing whitespace removed
RECURSIVE RStrip(_)
RStrip(q) == IF q # <<>> /\ Last(q) = " " THEN RStrip(Front(q)) ELSE q

\* str.rstrip(";"): trailing semicolons removed
RECURSIVE RStripSemicolons(_)
RStripSemicolons(q) == IF q # <<>> /\ Last(q) = ";" THEN RStripSemicolons(Front(q)) ELSE q

\* the regular expression \s+limit\s+\d+\s*$ (IGNORECASE) matches q from
\* position i to the end
LimitRegexMatchesAt(q, i) ==
    \E a, b, c \in i..Len(q) :
        /\ a < b /\ b < c
        /\ \A k \in i..a : q[k] = " "
        /\ q[a + 1] = "limit"
        /\ a + 2 <= b
        /\ \A k \in (a + 2)..b : q[k] = " "
        /\ \A k \in (b + 1)..c : q[k] \in Digits
        /\ \A k \in (c + 1)..Len(q) : q[k] = " "

\* re.sub(limit_regex, "", query): the leftmost match is removed (a match
\* ends at the end of the text, so there is at most one)
LimitRegexSub(q) ==
    LET starts == {i \in 1..Len(q) : LimitRegexMatchesAt(q, i)}
    IN IF starts = {} THEN q
       ELSE SubSeq(q, 1, (CHOOSE i \in starts : \A j \in starts : i <= j) - 1)

\* get_limit_query that leaves a trailing limit clause in place
get_limit_query_keep_clause(q) ==
    RStripSemicolons(RStrip(q)) \o <<" ", "limit", " ", "1">>

\* utils.py get_limit_query
get_limit_query(q) ==
    LimitRegexSub(RStripSemicolons(RStrip(q))) \o <<" ", "limit", " ", "1">>

QueryIdle ==
    /\ qpc = "idle"
    /\ query = <<>>
    /\ probe = <<>>
    /\ probe2 = <<>>

QueryInit ==
    /\ qpc = 0
    /\ query \in SeqsUpTo(QuerySymbols, MaxQueryLen)
    /\ probe = <<>>
    /\ probe2 = <<>>

\* fetch_schema line 50: query = get_limit_query(query)
LimitQuery ==
    /\ qpc = 0
    /\ probe' = get_limit_query(query)
    /\ qpc' = 1
    /\ UNCHANGED <<query, probe2, metricsVars, codecVars, transferVars>>

\* get_limit_query applied to its own result
LimitQueryAgain ==
    /\ qpc = 1
    /\ probe2' = get_limit_query(probe)
    /\ qpc' = 2
    /\ UNCHANGED <<query, probe, metricsVars, codecVars, transferVars>>

\* ============================================================== metrics writer
\* The processes that hold a Storage on the two shared queues.  Each calls
\* insert_benchmark once, with arguments of its own, and then finish_benchmark
\* with the id it received.
Callers == 1..MaxCallers

MetricsIdle ==
    /\ mpc = [p \in Callers |-> "idle"]
    /\ queue = <<>>
    /\ result_queue = <<>>
    /\ got = [p \in Callers |-> 0]
    /\ benchmark = <<>>
    /\ enqueued = <<>>
    /\ applied = <<>>

\* the writer process is started, every caller is about to call insert_benchmark
MetricsInit ==
    /\ mpc = [p \in Callers |-> "call"]
    /\ queue = <<>>
    /\ result_queue = <<>>
    /\ got = [p \in Callers |-> 0]
    /\ benchmark = <<>>
    /\ enqueued = <<>>
    /\ applied = <<>>

\* Storage.put(type, args): self.queue.put({"type": type, "args": args})
Put(type, args) ==
    /\ queue' = Append(queue, [type |-> type, args |-> args])
    /\ enqueued' = Append(enqueued, [type |-> type, args |-> args])

\* Storage.insert_benchmark line 111: the request is put; its arguments are
\* those of caller p
InsertBenchmarkPut ==
    /\ \E p \in Callers :
           /\ mpc[p] = "call"
           /\ Put("insert_benchmark", <<p>>)
           /\ mpc' = [mpc EXCEPT ![p] = "get"]
    /\ UNCHANGED <<result_queue, got, benchmark, applied, queryVars, codecVars, transferVars>>

\* Storage.insert_benchmark line 112: return self.result_queue.get(), which
\* blocks while the result queue is empty and takes its oldest item
InsertBenchmarkGet ==
    /\ \E p \in Callers :
           /\ mpc[p] = "get"
           /\ result_queue # <<>>
           /\ got' = [got EXCEPT ![p] = Head(result_queue)]
           /\ result_queue' = Tail(result_queue)
           /\ mpc' = [mpc EXCEPT ![p] = "finish"]
    /\ UNCHANGED <<queue, benchmark, enqueued, applied, queryVars, codecVars, transferVars>>

\* Storage.finish_benchmark(benchmark_id, finished_at) with the id received
FinishBenchmarkPut ==
    /\ \E p \in Callers :
           /\ mpc[p] = "finish"
           /\ Put("finish_benchmark", <<p, got[p]>>)
           /\ mpc' = [mpc EXCEPT ![p] = "done"]
    /\ UNCHANGED <<result_queue, got, benchmark, applied, queryVars, codecVars, transferVars>>

\* writer_loop lines 39-86, one iteration: msg = queue.get(); an
\* insert_benchmark inserts a row, whose id the database generates, and puts
\* the id on the result queue; a finish_benchmark updates the row of its id
writer_loop ==
    /\ queue # <<>>
    /\ LET msg == Head(queue)
       IN /\ queue' = Tail(queue)
          /\ applied' = Append(applied, msg)
          /\ IF msg.type = "insert_benchmark"
             THEN /\ benchmark' = Append(benchmark, [args |-> msg.args[1], finished_at |-> 0])
                  /\ result_queue' = Append(result_queue, Len(benchmark) + 1)
             ELSE /\ benchmark' = [benchmark EXCEPT ![msg.args[2]].finished_at = msg.args[1]]
                  /\ result_queue' = result_queue
    /\ UNCHANGED <<mpc, got, enqueued, queryVars, codecVars, transferVars>>

\* ============================================================== transfer
\* possible values of str(uuid.uuid4())[:4]
DirNames == {"d1", "d2"}
MONETDB_TEMPORARY_DIRECTORY == "monetdb"
NoFiles == [i \in {} |-> <<>>]
\* the content of a directory left under <root>/data by something else
Leftover == (0 :> <<7>>)

\* utils.py JSON_POLARS_DTYPE under the default setting json_polars_dtype = "struct"
JSON_POLARS_DTYPE == "Struct"

\* utils.py MONETDB_POLARS_TYPE_MAP
MONETDB_POLARS_TYPE_MAP ==
    [tinyint |-> "Int8", smallint |-> "Int16", int |-> "Int32", bigint |-> "Int64",
     hugeint |-> "Int128", blob |-> "Binary", real |-> "Float32", double |-> "Float64",
     boolean |-> "Boolean", timestamp |-> DatetimeMs, timestamptz |-> DatetimeMs,
     time |-> "Time", date |-> "Date", timetz |-> "Time", varchar |-> "String",
     char |-> "String", json |-> JSON_POLARS_DTYPE, sec_interval |-> "Int64",
     day_interval |-> "Int64", month_interval |-> "Int32"]

\* get_polars_type that maps an unknown type code to String
get_polars_type_fallback(type_code) ==
    IF type_code = "decimal" THEN Ok("Decimal")
    ELSE IF type_code \in DOMAIN MONETDB_POLARS_TYPE_MAP
    THEN Ok(MONETDB_POLARS_TYPE_MAP[type_code])
    ELSE Ok("String")

\* utils.py get_polars_type
get_polars_type(type_code) ==
    IF type_code = "decimal" THEN Ok("Decimal")
    ELSE IF type_code \in DOMAIN MONETDB_POLARS_TYPE_MAP
    THEN Ok(MONETDB_POLARS_TYPE_MAP[type_code])
    ELSE Raise("ValueError")

\* utils.py get_monetdb_type lines 164-166: the type code the database
\* reports for a column created from a DataFrame column of the dtype
TypeCodeOf(dtype) ==
    CASE dtype = "Int8" -> "tinyint"
      [] dtype = "String" -> "varchar"
      [] dtype = "Int128" -> "hugeint"

\* a column: its name, its polars dtype, its values, and the type code
\* under which the database reports it
Column(name, dtype, data) ==
    [name |-> name, dtype |-> dtype, data |-> data, type_code |-> TypeCodeOf(dtype)]
ColA == Column("a", "Int8", <<Some(<<1>>), None>>)
ColB == Column("b", "String", <<Some(<<97>>), None>>)
ColD == Column("d", "Int8", <<Some(<<-5>>), Some(<<0>>)>>)
ColX == Column("x", "Int128", <<None, None>>)
Catalogue == {ColA, ColB, ColD, ColX}
\* a column of a database type outside the type map
ColU == [name |-> "u", dtype |-> "String", data |-> <<None, Some(<<>>)>>, type_code |-> "uuid"]
\* a text column with a string that holds the character U+0000
ColZ == Column("z", "String", <<Some(<<0>>), None>>)

\* DataFrames: columns with distinct names
Tables == {t \in SeqsUpTo(Catalogue, MaxCols) :
              \A i, j \in 1..Len(t) : i # j => t[i].name # t[j].name}

\* the DataFrames passed to insert
DataFrames == {t \in SeqsUpTo(Catalogue \cup {ColZ}, MaxCols) :
                  \A i, j \in 1..Len(t) : i # j => t[i].name # t[j].name}

SchemaOf(cols) == [i \in 1..Len(cols) |-> [name |-> cols[i].name, dtype |-> cols[i].dtype]]

\* query results: the columns the database reports, whose names may repeat
\* (select a, a from t)
QueryResults == SeqsUpTo(Catalogue \cup {ColU}, MaxCols)

\* a Python dict built from (key, value) items in order: a key that occurs
\* again keeps its position and takes the later value
RECURSIVE DictFromItems(_)
DictFromItems(items) ==
    IF items = <<>> THEN <<>>
    ELSE LET d == DictFromItems(Front(items))
             item == Last(items)
         IN IF \E i \in 1..Len(d) : d[i].name = item.name
            THEN [i \in 1..Len(d) |-> IF d[i].name = item.name THEN item ELSE d[i]]
            ELSE Append(d, item)

\* the schema argument of fetch_binary: None, a method name, or a dict
SchemaArgs ==
    {[kind |-> "none", method |-> "", entries |-> <<>>]}
    \cup {[kind |-> "method", method |-> m, entries |-> <<>>] : m \in {"infer", "fetch", "bogus"}}
    \cup {[kind |-> "dict", method |-> "", entries |-> SchemaOf(t)] : t \in Tables}
    \cup {[kind |-> "dict", method |-> "", entries |-> <<[name |-> "u", dtype |-> "Int16"]>>]}
NoSchema == [kind |-> "none", method |-> "", entries |-> <<>>]

\* exceptions: the type, the stage that raised it, and the stage of its
\* explicit cause (raise ... from e)
NoErr == [type |-> "none", stage |-> "none", cause |-> "none"]
Err(type, stage) == [type |-> type, stage |-> stage, cause |-> "none"]
RaiseFrom(type, e) == [type |-> type, stage |-> "wrap", cause |-> e.stage]

\* f"'{path_prefix}{subdir}/{idx}.bin'": one entry of the files clause
Path(dir, idx) ==
    [prefix |-> IF client_file_transfer THEN "" ELSE "/",
     subdir |-> <<"data", dir>>,
     file |-> idx]

\* the bytes the database finds at a path of the files clause
ReadPath(p) == files[p.subdir[2]][p.file]

\* the bytes the database writes for one returned column (the wire format)
DbEncode(col) ==
    IF col.dtype = "Int128"
    THEN Concat([i \in 1..Len(col.data) |-> [k \in 1..16 |-> IF k = 16 THEN 128 ELSE 0]])
    ELSE write_binary_column_data(col.data, col.dtype).val

\* a fresh connection, the given setting and the given directories left
\* under <root>/data, no call in progress
TransferStart(setting, leftover) ==
    /\ client_file_transfer = setting
    /\ handler = "none"
    /\ attached = 0
    /\ prepared = 0
    /\ dirs = leftover
    /\ files = [d \in DirNames |-> IF d \in dirs THEN Leftover ELSE NoFiles]
    /\ dbTable = <<>>
    /\ op = "none"
    /\ tpc = "idle"
    /\ df = <<>>
    /\ commit = FALSE
    /\ schema = NoSchema
    /\ dbQuery = <<>>
    /\ expanded_schema = <<>>
    /\ temp_dir = "none"
    /\ created = FALSE
    /\ column_files = <<>>
    /\ copies = <<>>
    /\ columns = <<>>
    /\ pending = NoErr
    /\ primary = NoErr
    /\ raised = NoErr
    /\ returned = <<>>
    /\ committed = FALSE
    /\ rmtree_calls = 0
    /\ rmtree_failed = FALSE
    /\ logged = <<>>

TransferInit == \E setting \in BOOLEAN, leftover \in SUBSET DirNames : TransferStart(setting, leftover)

\* the caller starts insert(df, ...) or fetch_binary(query, connection, schema),
\* with a DataFrame or query result of tables and a schema argument of schemas
CallWith(tables, schemas, results) ==
    /\ \/ /\ op' = "insert_olap"
          /\ df' \in tables
          /\ commit' \in BOOLEAN
          /\ schema' = NoSchema
          /\ dbQuery' = <<>>
       \/ /\ op' = "insert_tsdb"
          /\ df' \in tables
          /\ commit' = TRUE
          /\ schema' = NoSchema
          /\ dbQuery' = <<>>
       \/ /\ op' = "fetch"
          /\ df' = <<>>
          /\ commit' = FALSE
          /\ schema' \in schemas
          /\ dbQuery' \in results
    /\ tpc' = "ensure"
    /\ expanded_schema' = <<>>
    /\ temp_dir' = "none"
    /\ created' = FALSE
    /\ column_files' = <<>>
    /\ copies' = <<>>
    /\ columns' = <<>>
    /\ pending' = NoErr
    /\ primary' = NoErr
    /\ raised' = NoErr
    /\ returned' = <<>>
    /\ committed' = FALSE
    /\ rmtree_calls' = 0
    /\ rmtree_failed' = FALSE
    /\ UNCHANGED <<auxVars, codecVars, connVars, fsVars, dbTable, logged>>

Call ==
    /\ tpc = "idle"
    /\ CallWith(DataFrames, SchemaArgs, QueryResults)

\* ensure_downloader_uploader(con) attaching a handler on every call in
\* client-side mode, whether one is attached or not
ensure_downloader_uploader_unconditional ==
    /\ tpc = "ensure"
    /\ IF ~client_file_transfer THEN UNCHANGED <<handler, attached>>
       ELSE /\ handler' = MONETDB_TEMPORARY_DIRECTORY
            /\ attached' = attached + 1
    /\ tpc' = IF op = "fetch" THEN "schema" ELSE "mkdir"
    /\ UNCHANGED <<auxVars, codecVars, client_file_transfer, prepared, fsVars, dbTable, argVars, logged,
                   expanded_schema, temp_dir, created, column_files, copies, columns,
                   pending, primary, raised, returned, committed, rmtree_calls, rmtree_failed>>

\* ensure_downloader_uploader(con)
ensure_downloader_uploader ==
    /\ tpc = "ensure"
    /\ IF ~client_file_transfer THEN UNCHANGED <<handler, attached>>
       ELSE IF handler # "none" THEN UNCHANGED <<handler, attached>>
       ELSE /\ handler' = MONETDB_TEMPORARY_DIRECTORY
            /\ attached' = attached + 1
    /\ tpc' = IF op = "fetch" THEN "schema" ELSE "mkdir"
    /\ UNCHANGED <<auxVars, codecVars, client_file_transfer, prepared, fsVars, dbTable, argVars, logged,
                   expanded_schema, temp_dir, created, column_files, copies, columns,
                   pending, primary, raised, returned, committed, rmtree_calls, rmtree_failed>>

\* the call ends by raising e before the try block is entered
RaiseOutside(e) ==
    /\ raised' = e
    /\ tpc' = "done"

\* fetch.py lines 58, 78-82: the schema built from the reported columns, by
\* get_polars_type on each type code
DiscoverSchema(cols) ==
    IF \A i \in 1..Len(cols) : get_polars_type(cols[i].type_code).ok
    THEN Ok(DictFromItems([i \in 1..Len(cols) |->
                [name |-> cols[i].name, dtype |-> get_polars_type(cols[i].type_code).val]]))
    ELSE Raise("ValueError")

\* fetch.py infer_schema: PREPARE <query>; description and fetchall();
\* DEALLOCATE ALL; the schema is built from the rows.  PREPARE raises and
\* nothing is allocated; or the statement is allocated and fetchall() or
\* DEALLOCATE ALL raises, which leaves it allocated; or DEALLOCATE ALL
\* releases every prepared statement of the connection, and the schema is
\* built or a type code is unknown (get_polars_type raises).
infer_schema ==
    \/ /\ prepared' = 0
       /\ LET r == DiscoverSchema(dbQuery)
          IN IF r.ok
             THEN /\ expanded_schema' = r.val
                  /\ tpc' = "mkdir"
                  /\ raised' = raised
             ELSE /\ RaiseOutside(Err(r.err, "schema"))
                  /\ expanded_schema' = expanded_schema
    \/ /\ prepared' \in {prepared, prepared + 1}
       /\ RaiseOutside(Err("OperationalError", "schema"))
       /\ expanded_schema' = expanded_schema

\* fetch_binary lines 97-113: the schema argument is resolved
ResolveSchema ==
    /\ tpc = "schema"
    /\ LET method == IF schema.kind = "none" THEN "infer" ELSE schema.method
       IN IF schema.kind = "dict"
          THEN /\ expanded_schema' = schema.entries
               /\ tpc' = "mkdir"
               /\ raised' = raised
               /\ prepared' = prepared
          ELSE IF method = "infer" THEN infer_schema
          ELSE IF method = "fetch"
          THEN /\ prepared' = prepared
               /\ \/ LET r == DiscoverSchema(dbQuery)
                     IN IF r.ok
                        THEN /\ expanded_schema' = r.val
                             /\ tpc' = "mkdir"
                             /\ raised' = raised
                        ELSE /\ RaiseOutside(Err(r.err, "schema"))
                             /\ expanded_schema' = expanded_schema
                  \/ /\ RaiseOutside(Err("OperationalError", "schema"))
                     /\ expanded_schema' = expanded_schema
          ELSE /\ RaiseOutside(Err("ValueError", "schema"))
               /\ expanded_schema' = expanded_schema
               /\ prepared' = prepared
    /\ UNCHANGED <<auxVars, codecVars, client_file_transfer, handler, attached, fsVars, dbTable,
                   argVars, logged, temp_dir, created, column_files, copies, columns,
                   pending, primary, returned, committed, rmtree_calls, rmtree_failed>>

\* temp_dir.mkdir(exist_ok=True): an existing directory is taken over
MkdirExistOk ==
    /\ tpc = "mkdir"
    /\ \E d \in DirNames :
        /\ temp_dir' = d
        /\ IF FALSE
           THEN /\ RaiseOutside(Err("FileExistsError", "mkdir"))
                /\ UNCHANGED <<dirs, files, created, column_files>>
           ELSE /\ dirs' = dirs \cup {d}
                /\ files' = files
                /\ created' = TRUE
                /\ raised' = raised
                /\ IF op = "fetch"
                   THEN /\ column_files' = [i \in 1..Len(expanded_schema) |-> Path(d, i - 1)]
                        /\ tpc' = "copy"
                   ELSE /\ column_files' = <<>>
                        /\ tpc' = "encode"
    /\ UNCHANGED <<auxVars, codecVars, connVars, dbTable, argVars, logged, expanded_schema, copies,
                   columns, pending, primary, returned, committed, rmtree_calls, rmtree_failed>>

\* temp_dir = ... / str(uuid.uuid4())[:4]; temp_dir.mkdir(); and, for
\* fetch_binary, output_files = [temp_dir / f"{idx}.bin" for idx in range(n)]
Mkdir ==
    /\ tpc = "mkdir"
    /\ \E d \in DirNames :
        /\ temp_dir' = d
        /\ IF d \in dirs
           THEN /\ RaiseOutside(Err("FileExistsError", "mkdir"))
                /\ UNCHANGED <<dirs, files, created, column_files>>
           ELSE /\ dirs' = dirs \cup {d}
                /\ files' = [files EXCEPT ![d] = NoFiles]
                /\ created' = TRUE
                /\ raised' = raised
                /\ IF op = "fetch"
                   THEN /\ column_files' = [i \in 1..Len(expanded_schema) |-> Path(d, i - 1)]
                        /\ tpc' = "copy"
                   ELSE /\ column_files' = <<>>
                        /\ tpc' = "encode"
    /\ UNCHANGED <<auxVars, codecVars, connVars, dbTable, argVars, logged, expanded_schema, copies,
                   columns, pending, primary, returned, committed, rmtree_calls, rmtree_failed>>

\* insert.py lines 69-71 (olap): except Exception as e: raise ValueError(...) from e.
\* tsdb insert and fetch_binary have no except clause: e propagates as it is.
ExceptClause(e) ==
    IF op = "insert_olap" THEN RaiseFrom("ValueError", e) ELSE e

\* a statement of the try block raises e
TryFailed(e) ==
    /\ primary' = e
    /\ pending' = ExceptClause(e)
    /\ tpc' = "finally"

\* insert lines 55-58: one iteration of the loop over enumerate(df.columns)
EncodeColumn ==
    /\ tpc = "encode"
    /\ Len(column_files) < Len(df)
    /\ LET idx == Len(column_files)
           col == df[idx + 1]
           r == write_binary_column_data(col.data, col.dtype)
       IN IF r.ok
          THEN /\ files' = [files EXCEPT ![temp_dir] = (idx :> r.val) @@ @]
               /\ column_files' = Append(column_files, Path(temp_dir, idx))
               /\ tpc' = "encode"
               /\ UNCHANGED <<primary, pending>>
          ELSE /\ TryFailed(Err(r.err, "encode"))
               /\ UNCHANGED <<files, column_files>>
    /\ UNCHANGED <<auxVars, codecVars, connVars, dirs, dbTable, argVars, logged, expanded_schema,
                   temp_dir, created, copies, columns, raised, returned, committed,
                   rmtree_calls, rmtree_failed>>

\* the COPY command text ending with ON SERVER whatever the setting is
CopyCommandOnServer(kind, paths) ==
    [kind |-> kind, paths |-> paths, on |-> "server"]

\* the COPY command text: direction, the files clause, ON CLIENT / ON SERVER
CopyCommand(kind, paths) ==
    [kind |-> kind, paths |-> paths,
     on |-> IF client_file_transfer THEN "client" ELSE "server"]

\* the COPY command issued inside the loop, before every file is written
CopyFromEarly ==
    /\ tpc = "encode"
    /\ Len(column_files) <= Len(df)
    /\ copies' = Append(copies, CopyCommand("from", column_files))
    /\ \/ /\ Len(column_files) > 0
          /\ dbTable' = [i \in 1..Len(column_files) |-> ReadPath(column_files[i])]
          /\ tpc' = IF commit THEN "commit" ELSE "finally"
          /\ UNCHANGED <<primary, pending>>
       \/ /\ TryFailed(Err("OperationalError", "copy"))
          /\ dbTable' = dbTable
    /\ UNCHANGED <<auxVars, codecVars, connVars, fsVars, argVars, logged, expanded_schema,
                   temp_dir, created, column_files, columns, raised, returned, committed,
                   rmtree_calls, rmtree_failed>>

\* insert lines 60-64: con.execute("copy little endian binary into ... from ...")
CopyFrom ==
    /\ tpc = "encode"
    /\ Len(column_files) = Len(df)
    /\ copies' = Append(copies, CopyCommand("from", column_files))
    /\ \/ /\ Len(column_files) > 0
          /\ dbTable' = [i \in 1..Len(column_files) |-> ReadPath(column_files[i])]
          /\ tpc' = IF commit THEN "commit" ELSE "finally"
          /\ UNCHANGED <<primary, pending>>
       \/ /\ TryFailed(Err("OperationalError", "copy"))
          /\ dbTable' = dbTable
    /\ UNCHANGED <<auxVars, codecVars, connVars, fsVars, argVars, logged, expanded_schema,
                   temp_dir, created, column_files, columns, raised, returned, committed,
                   rmtree_calls, rmtree_failed>>

\* insert lines 66-67: con.commit()
Commit ==
    /\ tpc = "commit"
    /\ \/ /\ committed' = TRUE
          /\ tpc' = "finally"
          /\ UNCHANGED <<primary, pending>>
       \/ /\ TryFailed(Err("OperationalError", "commit"))
          /\ committed' = committed
    /\ UNCHANGED <<auxVars, codecVars, connVars, fsVars, dbTable, argVars, logged, expanded_schema,
                   temp_dir, created, column_files, copies, columns, raised, returned,
                   rmtree_calls, rmtree_failed>>

\* the files the database has written after producing the first k columns
DbWritten(k) ==
    [i \in 0..(k - 1) |-> DbEncode(dbQuery[i + 1])]

\* fetch_binary lines 128-131: con.execute("copy <query> into little endian binary ...")
CopyInto ==
    /\ tpc = "copy"
    /\ copies' = Append(copies, CopyCommand("into", column_files))
    /\ \/ /\ Len(column_files) > 0
          /\ Len(column_files) = Len(dbQuery)
          /\ files' = [files EXCEPT ![temp_dir] = DbWritten(Len(dbQuery))]
          /\ tpc' = "decode"
          /\ UNCHANGED <<primary, pending>>
       \/ /\ \E k \in {0, Len(column_files) - 1} :
                /\ k >= 0
                /\ k <= Len(dbQuery)
                /\ files' = [files EXCEPT ![temp_dir] = DbWritten(k)]
          /\ TryFailed(Err("OperationalError", "copy"))
    /\ UNCHANGED <<auxVars, codecVars, connVars, dirs, dbTable, argVars, logged, expanded_schema,
                   temp_dir, created, column_files, columns, raised, returned, committed,
                   rmtree_calls, rmtree_failed>>

\* a schema entry paired with the last-but-(i-1) file instead of the i-th
ZipReversed(i) ==
    [name |-> expanded_schema[i].name, dtype |-> expanded_schema[i].dtype,
     path |-> column_files[Len(column_files) + 1 - i]]

\* the i-th item of zip(expanded_schema.items(), output_files, strict=True)
ZipSchemaFiles(i) ==
    [name |-> expanded_schema[i].name, dtype |-> expanded_schema[i].dtype,
     path |-> column_files[i]]

\* the decode loop going on to the assembly of the table, the finally clause skipped
DecodeColumnSkipCleanup ==
    /\ tpc = "decode"
    /\ Len(columns) < Len(expanded_schema)
    /\ LET i == Len(columns) + 1
           item == ZipSchemaFiles(i)
           r == read_binary_column_data(ReadPath(item.path), item.dtype)
       IN IF r.ok
          THEN /\ columns' = Append(columns, <<item.name, r.val>>)
               /\ tpc' = IF i = Len(expanded_schema) THEN "assemble" ELSE "decode"
               /\ UNCHANGED <<primary, pending>>
          ELSE /\ TryFailed(Err(r.err, "decode"))
               /\ columns' = columns
    /\ UNCHANGED <<auxVars, codecVars, connVars, fsVars, dbTable, argVars, logged, expanded_schema,
                   temp_dir, created, column_files, copies, raised, returned, committed,
                   rmtree_calls, rmtree_failed>>

\* fetch_binary lines 135-136: one iteration of the decode loop
DecodeColumn ==
    /\ tpc = "decode"
    /\ Len(columns) < Len(expanded_schema)
    /\ LET i == Len(columns) + 1
           item == ZipSchemaFiles(i)
           r == read_binary_column_data(ReadPath(item.path), item.dtype)
       IN IF r.ok
          THEN /\ columns' = Append(columns, <<item.name, r.val>>)
               /\ tpc' = IF i = Len(expanded_schema) THEN "finally" ELSE "decode"
               /\ UNCHANGED <<primary, pending>>
          ELSE /\ TryFailed(Err(r.err, "decode"))
               /\ columns' = columns
    /\ UNCHANGED <<auxVars, codecVars, connVars, fsVars, dbTable, argVars, logged, expanded_schema,
                   temp_dir, created, column_files, copies, raised, returned, committed,
                   rmtree_calls, rmtree_failed>>

\* what follows the finally clause when shutil.rmtree returned
AfterFinally ==
    IF pending # NoErr
    THEN /\ raised' = pending
         /\ tpc' = "done"
    ELSE /\ raised' = raised
         /\ tpc' = IF op = "fetch" THEN "assemble" ELSE "done"

\* cleanup placed after the try block instead of in a finally clause: it is
\* skipped when an exception is propagating
FinallyOnlyOnSuccess ==
    /\ tpc = "finally"
    /\ IF pending # NoErr
       THEN /\ raised' = pending
            /\ tpc' = "done"
            /\ UNCHANGED <<dirs, files, rmtree_calls, rmtree_failed>>
       ELSE /\ rmtree_calls' = rmtree_calls + 1
            /\ dirs' = dirs \ {temp_dir}
            /\ files' = [files EXCEPT ![temp_dir] = NoFiles]
            /\ rmtree_failed' = rmtree_failed
            /\ AfterFinally
    /\ UNCHANGED <<auxVars, codecVars, connVars, dbTable, argVars, logged, expanded_schema,
                   temp_dir, created, column_files, copies, columns, pending, primary,
                   returned, committed>>

\* finally: shutil.rmtree(temp_dir).  It removes the directory and its files,
\* or raises (leaving the directory, with or without its files); its
\* exception then replaces the one that was propagating.
Finally ==
    /\ tpc = "finally"
    /\ rmtree_calls' = rmtree_calls + 1
    /\ \/ /\ dirs' = dirs \ {temp_dir}
          /\ files' = [files EXCEPT ![temp_dir] = NoFiles]
          /\ rmtree_failed' = rmtree_failed
          /\ AfterFinally
       \/ /\ rmtree_failed' = TRUE
          /\ dirs' = dirs
          /\ files' \in {files, [files EXCEPT ![temp_dir] = NoFiles]}
          /\ raised' = Err("OSError", "cleanup")
          /\ tpc' = "done"
    /\ UNCHANGED <<auxVars, codecVars, connVars, dbTable, argVars, logged, expanded_schema,
                   temp_dir, created, column_files, copies, columns, pending, primary,
                   returned, committed>>

\* pl.DataFrame(columns) accepting series of any lengths
AssembleUnchecked ==
    /\ tpc = "assemble"
    /\ returned' = columns
    /\ raised' = raised
    /\ tpc' = "done"
    /\ UNCHANGED <<auxVars, codecVars, connVars, fsVars, dbTable, argVars, logged, expanded_schema,
                   temp_dir, created, column_files, copies, columns, pending, primary,
                   committed, rmtree_calls, rmtree_failed>>

\* fetch_binary lines 141-142: pl.DataFrame(columns) needs series of one length
Assemble ==
    /\ tpc = "assemble"
    /\ IF \A i, j \in 1..Len(columns) : Len(columns[i][2]) = Len(columns[j][2])
       THEN /\ returned' = columns
            /\ raised' = raised
       ELSE /\ raised' = Err("ShapeError", "assemble")
            /\ returned' = returned
    /\ tpc' = "done"
    /\ UNCHANGED <<auxVars, codecVars, connVars, fsVars, dbTable, argVars, logged, expanded_schema,
                   temp_dir, created, column_files, copies, columns, pending, primary,
                   committed, rmtree_calls, rmtree_failed>>

CodecIdle ==
    /\ cpc = "idle"
    /\ cdtype = "none"
    /\ ccol = <<>>
    /\ cfile = <<>>
    /\ cout = NoResult
    /\ cwrote = FALSE
    /\ cimpl = "none"
    /\ cmeta = NoMeta

AuxIdle == QueryIdle /\ MetricsIdle

Init == TransferInit /\ CodecIdle /\ AuxIdle

Next ==
    \/ Call
    \/ ensure_downloader_uploader
    \/ ResolveSchema
    \/ Mkdir
    \/ EncodeColumn
    \/ CopyFrom
    \/ Commit
    \/ CopyInto
    \/ DecodeColumn
    \/ Finally
    \/ Assemble

Spec == Init /\ [][Next]_vars

\* the codec harness alone, no transfer in progress
CodecNext ==
    \/ WriteColumn
    \/ ReadColumn

CodecStart == CodecInit /\ TransferStart(FALSE, {}) /\ AuxIdle

SpecCodec == CodecStart /\ [][CodecNext]_vars

\* the codec harness on Decimal columns
DecimalStart == DecimalInit /\ TransferStart(FALSE, {}) /\ AuxIdle

SpecDecimal == DecimalStart /\ [][CodecNext]_vars

\* A session: transfers one after the other on one live connection.  The
\* call has returned or raised; the caller is ready for the next call.
Return ==
    /\ tpc = "done"
    /\ tpc' = "idle"
    /\ op' = "none"
    /\ df' = <<>>
    /\ commit' = FALSE
    /\ schema' = NoSchema
    /\ dbQuery' = <<>>
    /\ expanded_schema' = <<>>
    /\ temp_dir' = "none"
    /\ created' = FALSE
    /\ column_files' = <<>>
    /\ copies' = <<>>
    /\ columns' = <<>>
    /\ pending' = NoErr
    /\ primary' = NoErr
    /\ raised' = NoErr
    /\ returned' = <<>>
    /\ committed' = FALSE
    /\ rmtree_calls' = 0
    /\ rmtree_failed' = FALSE
    /\ UNCHANGED <<auxVars, codecVars, connVars, fsVars, dbTable, logged>>

\* the DataFrames, query results and schema arguments of a session
SessionTables == {<<ColA>>, <<ColX>>}
SessionSchemas ==
    {[kind |-> "none", method |-> "", entries |-> <<>>],
     [kind |-> "dict", method |-> "", entries |-> SchemaOf(<<ColA>>)]}

SessionCall ==
    /\ tpc = "idle"
    /\ prepared < MaxPrepared
    /\ CallWith(SessionTables, SessionSchemas, SessionTables)

\* between two calls, the owner of the connection prepares a statement of
\* its own on it (PREPARE ...), which stays allocated until it is released
CallerPrepare ==
    /\ tpc = "idle"
    /\ prepared < MaxPrepared
    /\ prepared' = prepared + 1
    /\ UNCHANGED <<auxVars, codecVars, client_file_transfer, handler, attached, fsVars,
                   callVars, argVars, dbTable, logged>>

SessionStart == (\E setting \in BOOLEAN : TransferStart(setting, {})) /\ CodecIdle /\ AuxIdle

SessionNext ==
    \/ SessionCall
    \/ ensure_downloader_uploader
    \/ ResolveSchema
    \/ Mkdir
    \/ EncodeColumn
    \/ CopyFrom
    \/ Commit
    \/ CopyInto
    \/ DecodeColumn
    \/ Finally
    \/ Assemble
    \/ Return
    \/ CallerPrepare

SpecSession == SessionStart /\ [][SessionNext]_vars

\* get_limit_query on every enumerated query text
QueryNext ==
    \/ LimitQuery
    \/ LimitQueryAgain

QueryStart == QueryInit /\ MetricsIdle /\ TransferStart(FALSE, {}) /\ CodecIdle

SpecQuery == QueryStart /\ [][QueryNext]_vars

\* callers of insert_benchmark and the writer process on the shared queues
MetricsNext ==
    \/ InsertBenchmarkPut
    \/ InsertBenchmarkGet
    \/ FinishBenchmarkPut
    \/ writer_loop

MetricsStart == MetricsInit /\ QueryIdle /\ TransferStart(FALSE, {}) /\ CodecIdle

SpecMetrics == MetricsStart /\ [][MetricsNext]_vars

\* Date, Time and Datetime columns through the codec
TemporalStart == TemporalInit /\ TransferStart(FALSE, {}) /\ AuxIdle
SpecTemporal == TemporalStart /\ [][CodecNext]_vars

\* ============================================================== transfer claims
Inserting == op \in {"insert_olap", "insert_tsdb"}
Exited == tpc = "done"
StagingGone == temp_dir \notin dirs /\ files[temp_dir] = NoFiles

C2_CleanupErrorNeverMasks ==
    (Exited /\ primary # NoErr /\ rmtree_failed) =>
        /\ raised.stage = primary.stage \/ raised.cause = primary.stage
        /\ \E i \in 1..Len(logged) : logged[i].stage = "cleanup"

\* C3 (as stated): when encoding, COPY or commit fails, insert removes the
\* staging directory and the caller observes the failing stage's exception.
C3_OriginalErrorPropagates ==
    (Exited /\ Inserting /\ primary # NoErr) =>
        /\ StagingGone
        /\ raised = primary

\* the path of file idx.bin of the staging directory, as the COPY command names it
PositionalPath(idx) ==
    [prefix |-> IF client_file_transfer THEN "" ELSE "/",
     subdir |-> <<"data", temp_dir>>, file |-> idx]

\* C4: file order is schema order.  Import: file i.bin holds the encoding of
\* the i-th column of the DataFrame and the COPY command names the files
\* 0..n-1 in that order, so the database binds column i to DataFrame column
\* i.  Export: the i-th file of the COPY command is decoded with the type of
\* the i-th schema entry and returned under the i-th schema name, whatever the
\* names are.
C4_FileOrderIsSchemaOrder ==
    /\ (Inserting /\ copies # <<>>) =>
          /\ Len(copies) = 1
          /\ copies[1].paths = [i \in 1..Len(df) |-> PositionalPath(i - 1)]
          /\ tpc \in {"commit", "finally"} =>
                \A i \in 1..Len(df) :
                    files[temp_dir][i - 1] = write_binary_column_data(df[i].data, df[i].dtype).val
          /\ primary.stage # "copy" =>
                dbTable = [i \in 1..Len(df) |->
                              write_binary_column_data(df[i].data, df[i].dtype).val]
    /\ (op = "fetch" /\ copies # <<>>) =>
          /\ Len(copies) = 1
          /\ copies[1].paths = [i \in 1..Len(expanded_schema) |-> PositionalPath(i - 1)]
          /\ Len(columns) <= Len(expanded_schema)
          /\ \A i \in 1..Len(columns) :
                columns[i] = <<expanded_schema[i].name,
                               read_binary_column_data(DbEncode(dbQuery[i]),
                                                       expanded_schema[i].dtype).val>>
          /\ (Exited /\ raised = NoErr) =>
                /\ returned = columns
                /\ Len(columns) = Len(expanded_schema)

\* the schema names the columns d, a while the query produces a, d: the data
\* of a is returned under the name d
C4_Witness ==
    /\ Exited
    /\ op = "fetch"
    /\ dbQuery = <<ColA, ColD>>
    /\ expanded_schema = SchemaOf(<<ColD, ColA>>)
    /\ returned = << <<"d", ColA.data>>, <<"a", ColD.data>> >>

\* ============================================================== codec claims
Written == cwrote /\ cpc \in {"file", "decoded"}
RoundTripped == cwrote /\ cpc = "decoded"
NpOf(dtype) == POLARS_NUMPY_TYPE_MAP[dtype]

\* C5 (as stated): for every signed width and every column of optional signed
\* integers, read_numeric_column(write_numeric_column(column)) is the column.
C5_RoundTripEveryValue ==
    (RoundTripped /\ cdtype \in SignedDtypes) => (cout.ok /\ cout.val = ccol)

\* C5 (amended): the round trip reproduces every null and every non-null value
\* except the minimum value of the width, which is read back as null.
C5_RoundTripExceptMin ==
    (RoundTripped /\ cdtype \in SignedDtypes) =>
        /\ cout.ok
        /\ Len(cout.val) = Len(ccol)
        /\ \A i \in 1..Len(ccol) :
              cout.val[i] = IF ccol[i] = Some(IInfoMin(NpOf(cdtype))) THEN None ELSE ccol[i]

C5_Witness ==
    /\ RoundTripped
    /\ cdtype = "Int64"
    /\ ccol = <<Some(IInfoMax("int64")), None>>
    /\ cout = Ok(ccol)

\* the little-endian two's-complement bytes of a machine integer of n bytes
TwosComplementLE(x) ==
    [i \in 1..Len(x) |-> IF x[i] < 0 THEN x[i] + 256 ELSE x[i]]

\* C6: a signed integer column of N elements is written as N records of w/8
\* bytes, little-endian two's complement, a null as the minimum value of the
\* width; the 8-bit column [1, null, -5] is the bytes 01 80 FB and reads back.
C6_SignedEncoding ==
    (Written /\ cdtype \in SignedDtypes) =>
        LET n == ItemSize(NpOf(cdtype))
        IN /\ Len(cfile) = Len(ccol) * n
           /\ \A k \in 1..Len(ccol) :
                SubSeq(cfile, (k - 1) * n + 1, k * n) =
                    IF IsNone(ccol[k])
                    THEN [i \in 1..n |-> IF i = n THEN 128 ELSE 0]
                    ELSE TwosComplementLE(ccol[k][1])
           /\ (cdtype = "Int8" /\ ccol = <<Some(<<1>>), None, Some(<<-5>>)>>) =>
                /\ cfile = <<1, 128, 251>>
                /\ cpc = "decoded" => cout = Ok(ccol)

C6_Witness ==
    /\ RoundTripped
    /\ cdtype = "Int8"
    /\ ccol = <<Some(<<1>>), None, Some(<<-5>>)>>
    /\ cfile = <<1, 128, 251>>

\* C7 (as stated): a null of an unsigned column is written as the bit pattern
\* of the minimum signed value (0x80 in the high byte), differs from the
\* record of zero, and reads back as null.
C7_UnsignedNull ==
    (Written /\ cdtype \in UnsignedDtypes) =>
        LET n == ItemSize(NpOf(cdtype))
        IN \A k \in 1..Len(ccol) :
              IsNone(ccol[k]) =>
                /\ SubSeq(cfile, (k - 1) * n + 1, k * n) =
                        [i \in 1..n |-> IF i = n THEN 128 ELSE 0]
                /\ cpc = "decoded" => (cout.ok /\ IsNone(cout.val[k]))

\* C8: a boolean column is one byte per element, false 0, true 1, null 128;
\* the reader maps 0 to false, 1 to true, 128 to null; the round trip is exact.
C8_BooleanCodec ==
    cdtype = "Boolean" =>
        /\ Written =>
              cfile = [i \in 1..Len(ccol) |->
                          IF IsNone(ccol[i]) THEN 128 ELSE IF ccol[i][1] THEN 1 ELSE 0]
        /\ cpc = "decoded" =>
              /\ cout.ok
              /\ Len(cout.val) = Len(cfile)
              /\ \A i \in 1..Len(cfile) :
                    /\ cfile[i] = 0 => cout.val[i] = Some(FALSE)
                    /\ cfile[i] = 1 => cout.val[i] = Some(TRUE)
                    /\ cfile[i] = 128 => cout.val[i] = None
        /\ RoundTripped => cout.val = ccol

C8_Witness ==
    /\ RoundTripped
    /\ cdtype = "Boolean"
    /\ ccol = <<Some(TRUE), None>>
    /\ cfile = <<1, 128>>
    /\ cout = Ok(ccol)

HasNul(col) == \E i \in 1..Len(col) : ~IsNone(col[i]) /\ 0 \in {col[i][1][j] : j \in 1..Len(col[i][1])}

\* C9 (as stated): every column of optional strings is written as UTF-8 bytes
\* plus one 0x00 per element ("" as 00, null as 80 00) and read back exactly.
C9_TextRoundTripEveryString ==
    (RoundTripped /\ cdtype = "String") => (cout.ok /\ cout.val = ccol)

\* C9 (amended): the written bytes are as stated for every column, and the
\* column is read back exactly when no value contains the character U+0000.
C9_TextRoundTripNoNul ==
    cdtype = "String" =>
        /\ Written =>
              /\ cfile = Concat([i \in 1..Len(ccol) |->
                            IF IsNone(ccol[i]) THEN <<128, 0>>
                            ELSE IF ccol[i][1] = <<>> THEN <<0>>
                            ELSE Utf8Encode(ccol[i][1]) \o <<0>>])
              /\ ccol = ExampleTextColumn => cfile = <<0, 128, 0, 97, 98, 0>>
        /\ (RoundTripped /\ ~HasNul(ccol)) => (cout.ok /\ cout.val = ccol)

C9_Witness ==
    /\ RoundTripped
    /\ cdtype = "String"
    /\ ccol = ExampleTextColumn
    /\ cfile = <<0, 128, 0, 97, 98, 0>>
    /\ cout = Ok(ccol)

\* the i-th record of a text file: the bytes between the (i-1)-th and the
\* i-th terminator
NthNul(data, i) ==
    CHOOSE p \in NulPositions(data) :
        Cardinality({q \in NulPositions(data) : q < p}) = i - 1
RecordAt(data, i) ==
    LET from == IF i = 1 THEN 1 ELSE NthNul(data, i - 1) + 1
    IN SubSeq(data, from, NthNul(data, i) - 1)
NumRecords(data) == Cardinality(NulPositions(data))
NullCount(col) == Cardinality({i \in 1..Len(col) : IsNone(col[i])})

\* C10 (as stated): a record reads as null exactly when it is the single byte
\* 0x80; a record that starts with 0x80 and has further bytes reads as a
\* non-null value; no written non-null text reads as null.
C10_SentinelAsStated ==
    (cpc = "decoded" /\ cdtype = "String") =>
        /\ cout.ok =>
              /\ Len(cout.val) = NumRecords(cfile)
              /\ \A i \in 1..NumRecords(cfile) :
                    IsNone(cout.val[i]) <=> RecordAt(cfile, i) = <<128>>
        /\ \A i \in 1..NumRecords(cfile) :
              LET r == RecordAt(cfile, i)
              IN (Len(r) > 1 /\ r[1] = 128) => (cout.ok /\ ~IsNone(cout.val[i]))
        /\ cwrote => (cout.ok /\ NullCount(cout.val) = NullCount(ccol))

\* C10 (amended): when the read returns, a record is null exactly when it is
\* the single byte 0x80; a longer record starting with 0x80 is never read as
\* null: the scan keeps it as a non-null byte string and the cast to text
\* then fails, 0x80 not being the start of any UTF-8 character; no written
\* non-null text reads as null.
C10_SentinelDiscrimination ==
    (cpc = "decoded" /\ cdtype = "String") =>
        /\ cout.ok =>
              /\ Len(cout.val) = NumRecords(cfile)
              /\ \A i \in 1..NumRecords(cfile) :
                    IsNone(cout.val[i]) <=> RecordAt(cfile, i) = <<128>>
        /\ \A i \in 1..NumRecords(cfile) :
              LET r == RecordAt(cfile, i)
              IN (Len(r) > 1 /\ r[1] = 128) =>
                    /\ ScanRecords(cfile, 1)[i] = Some(r)
                    /\ cout = Raise("ArrowInvalid")
        /\ cwrote => (cout.ok /\ NullCount(cout.val) = NullCount(ccol))

C10_Witness ==
    /\ cpc = "decoded"
    /\ cdtype = "String"
    /\ ~cwrote
    /\ cfile = <<128, 0, 97, 0>>
    /\ cout = Ok(<<None, Some(<<97>>)>>)

\* the bytes of a blob file are whole records: length prefixes and payloads
\* of the declared lengths, nothing cut
RECURSIVE WholeBlobRecords(_)
WholeBlobRecords(data) ==
    \/ data = <<>>
    \/ /\ Len(data) >= 8
       /\ LET prefix == SubSeq(data, 1, 8)
              length == prefix[1] + 256 * prefix[2] + 65536 * prefix[3]
          IN IF prefix = [i \in 1..8 |-> 255]
             THEN WholeBlobRecords(SubSeq(data, 9, Len(data)))
             ELSE /\ \A i \in 4..8 : prefix[i] = 0
                  /\ 8 + length <= Len(data)
                  /\ WholeBlobRecords(SubSeq(data, 9 + length, Len(data)))

\* C11: a blob column is written as, per element, the 8-byte little-endian
\* length and that many bytes (a zero-length blob is eight zero bytes), a
\* null as eight 0xFF bytes with no payload; reading those bytes returns the
\* column exactly.
C11_BlobRoundTrip ==
    (cdtype = "Binary" /\ Written) =>
        /\ cfile = Concat([i \in 1..Len(ccol) |->
                      IF IsNone(ccol[i]) THEN <<255, 255, 255, 255, 255, 255, 255, 255>>
                      ELSE IF ccol[i][1] = <<>> THEN <<0, 0, 0, 0, 0, 0, 0, 0>>
                      ELSE <<Len(ccol[i][1]), 0, 0, 0, 0, 0, 0, 0>> \o ccol[i][1]])
        /\ cpc = "decoded" => cout = Ok(ccol)

C11_Witness ==
    /\ RoundTripped
    /\ cdtype = "Binary"
    /\ ccol = ExampleBlobColumn
    /\ Len(cfile) = 26
    /\ cout = Ok(ccol)

\* C12 (as stated): reading a text or blob file that is not a whole number
\* of complete records (a blob payload shorter than declared, a blob file
\* ending inside a length prefix, text bytes after the last terminator)
\* raises; no partial column is returned.
C12_CutFileRaises ==
    (cpc = "decoded" /\ ~cwrote) =>
        /\ (cdtype = "Binary" /\ ~WholeBlobRecords(cfile)) => ~cout.ok
        /\ (cdtype = "String" /\ cfile # <<>> /\ Last(cfile) # 0) => ~cout.ok

\* ============================================================== decimal claims
\* record k of a file of records of the numpy dtype np, as a machine integer
RecordInt(data, k, np) ==
    ElemFromBytes(SubSeq(data, (k - 1) * ItemSize(np) + 1, k * ItemSize(np)), np)

DecimalWritten == cdtype = "Decimal" /\ cwrote /\ cpc \in {"file", "decoded"}
DecimalFailed == cdtype = "Decimal" /\ cpc = "failed"

\* C13 (as stated): a Decimal(18, s) column is encoded and decoded
\* successfully, whatever its values; a Decimal(p, s) column with p >= 19
\* fails at encode time with an unsupported-type error, nothing written.
C13_DecimalPrecisionBoundary ==
    cdtype = "Decimal" =>
        /\ cmeta.precision = 18 =>
              /\ cpc # "failed"
              /\ cpc = "decoded" => cout = Ok(ccol)
        /\ cmeta.precision >= 19 =>
              /\ ~cwrote /\ cfile = <<>>
              /\ cpc # "column" => (cpc = "failed" /\ cout = Raise("ValueError"))

\* C14 (as stated): for 1 <= p <= 18 and every scale s >= 0, each non-null
\* value is stored as the integer value * 10^s with s the declared scale,
\* the read divides by the same 10^s and returns the column, and the scale
\* the codec uses is the scale of the database column.
C14_DecimalScaling ==
    (cdtype = "Decimal" /\ cmeta.precision \in 1..18) =>
        /\ DecimalWritten =>
              /\ DecimalCodecScale(cmeta) = get_monetdb_type(cmeta).scale
              /\ \A k \in 1..Len(ccol) :
                    ~IsNone(ccol[k]) =>
                        FromInt(RecordInt(cfile, k, decimal_numpy_dtype(cmeta.precision)))
                            = ccol[k][1]
        /\ cpc = "decoded" => cout = Ok(ccol)

\* C15 (as stated): decimal_numpy_dtype(p) is int8 for p in 1..2, int16 for
\* 3..4, int32 for 5..9, int64 for 10..18 and raises for every other p; the
\* scaled integer of every value of a valid Decimal(p, s) is stored in that
\* width without wrap-around and is never the minimum value of the width.
C15_DecimalStorageWidth ==
    /\ \A q \in 0..40 :
          decimal_numpy_dtype(q) =
              IF q \in 1..2 THEN "int8" ELSE IF q \in 3..4 THEN "int16"
              ELSE IF q \in 5..9 THEN "int32" ELSE IF q \in 10..18 THEN "int64"
              ELSE "none"
    /\ (DecimalWritten /\ cmeta.precision \in 1..18) =>
          \A k \in 1..Len(ccol) :
              ~IsNone(ccol[k]) =>
                  LET np == decimal_numpy_dtype(cmeta.precision)
                      stored == RecordInt(cfile, k, np)
                  IN /\ FromInt(stored)
                          = ScaledInt(ccol[k][1], DecimalCodecScale(cmeta), cmeta.scale)
                     /\ stored # IInfoMin(np)

\* ---------------------------------------------------------------- C16
\* the year of every value of the column fits the 16-bit year field
YearsFit(col) == \A i \in 1..Len(col) : IsNone(col[i]) \/ col[i][1].year \in -32768..32767

\* the 16-bit two's complement of a year, low byte first
YearField(y) == LET u == IF y < 0 THEN y + 65536 ELSE y IN <<u % 256, u \div 256>>

\* the date fields of a record as the claim states them
DateFieldsAsStated(v) ==
    IF IsNone(v) THEN <<255, 255, 255, 255>>
    ELSE <<v[1].day, v[1].month>> \o YearField(v[1].year)

\* the time fields of a Datetime record as the claim states them
TimeFieldsAsStated(v) ==
    IF IsNone(v) THEN <<255, 255, 255, 255, 255, 255, 255, 255>>
    ELSE LET ms == v[1].nanosecond \div 1000000
         IN <<ms % 256, ms \div 256, 0, 0, v[1].second, v[1].minute, v[1].hour, 0>>

\* C16: a null Date is written as {255, 255, -1}, a null Datetime as the Time
\* sentinel fields followed by the Date sentinel fields, a non-null value
\* with its own field values and padding 0; and decoding the written file
\* gives the column back, for every column of optional dates or millisecond
\* datetimes, a value of year -1 included.
C16_DateRoundTrip ==
    (cdtype \in {"Date", DatetimeMs} /\ cwrote /\ YearsFit(ccol)) =>
        /\ cfile = Concat([i \in 1..Len(ccol) |->
                        IF cdtype = "Date" THEN DateFieldsAsStated(ccol[i])
                        ELSE TimeFieldsAsStated(ccol[i]) \o DateFieldsAsStated(ccol[i])])
        /\ cpc = "decoded" => cout = Ok(ccol)

\* ---------------------------------------------------------------- C17
\* the 8-byte Time record as the claim states it
TimeRecordAsStated(v) ==
    IF IsNone(v) THEN <<255, 255, 255, 255, 255, 255, 255, 255>>
    ELSE LET ms == v[1].nanosecond \div 1000000
         IN <<ms % 256, ms \div 256, 0, 0, v[1].second, v[1].minute, v[1].hour, 0>>

TimeRecordsAsStated ==
    cfile = Concat([i \in 1..Len(ccol) |-> TimeRecordAsStated(ccol[i])])

\* C17 (as stated): a null Time is written as the record {0xFFFFFFFF, 255,
\* 255, 255, 255}, a non-null Time as {millisecond, second, minute, hour, 0};
\* read_time_column returns null for the sentinel record and every non-null
\* Time value written by write_time_column exactly as it was.
C17_TimeRoundTripExact ==
    (cdtype = "Time" /\ cwrote) =>
        /\ TimeRecordsAsStated
        /\ cpc = "decoded" => cout = Ok(ccol)

\* C17 (amended): the records are as stated; read_time_column returns null
\* for the sentinel record and every non-null Time truncated to whole
\* milliseconds, so a Time is reproduced exactly when it is a whole number of
\* milliseconds.
C17_TimeRoundTripMillis ==
    (cdtype = "Time" /\ cwrote) =>
        /\ TimeRecordsAsStated
        /\ cpc = "decoded" =>
              /\ cout.ok
              /\ Len(cout.val) = Len(ccol)
              /\ \A i \in 1..Len(ccol) :
                    cout.val[i] =
                        IF IsNone(ccol[i]) THEN None
                        ELSE Some([ccol[i][1] EXCEPT
                                     !.nanosecond = @ - (@ % 1000000)])

\* a null and a Time of 12:34:56.789 were written and read back
C17_Witness ==
    /\ cdtype = "Time"
    /\ cpc = "decoded"
    /\ cwrote
    /\ ccol = <<None, Some([hour |-> 12, minute |-> 34, second |-> 56,
                            nanosecond |-> 789000000])>>
    /\ cfile = <<255, 255, 255, 255, 255, 255, 255, 255, 21, 3, 0, 0, 56, 34, 12, 0>>
    /\ cout = Ok(ccol)

\* ---------------------------------------------------------------- C18
\* C18: in server-side mode every file path of a COPY command starts with
\* '/' and the command ends with ON SERVER; in client-side mode every path is
\* relative, of the form data/<staging-name>/<index>.bin, and the command
\* ends with ON CLIENT; one command never mixes the two.
C18_TransferModeResolution ==
    \A c \in 1..Len(copies) :
        LET command == copies[c]
        IN IF client_file_transfer
           THEN /\ command.on = "client"
                /\ \A i \in 1..Len(command.paths) :
                      /\ command.paths[i].prefix = ""
                      /\ command.paths[i].subdir = <<"data", temp_dir>>
                      /\ command.paths[i].file = i - 1
           ELSE /\ command.on = "server"
                /\ \A i \in 1..Len(command.paths) : command.paths[i].prefix = "/"

\* a client-side COPY command over two files was issued
C18_Witness ==
    /\ client_file_transfer
    /\ Len(copies) = 1
    /\ copies[1].on = "client"
    /\ Len(copies[1].paths) = 2
    /\ copies[1].paths[2] = [prefix |-> "", subdir |-> <<"data", temp_dir>>, file |-> 1]

\* ---------------------------------------------------------------- C19
\* C19: over any sequence of exports and imports on one live connection, in
\* client-side mode the transfer handler is attached exactly once, before
\* the first COPY command is issued, and is bound to the staging root; once
\* it is attached, a later ensure_downloader_uploader attaches nothing; in
\* server-side mode no handler is ever attached.
C19_HandlerAttachedOnce ==
    /\ [](IF client_file_transfer
          THEN /\ attached <= 1
               /\ handler = IF attached = 1 THEN MONETDB_TEMPORARY_DIRECTORY ELSE "none"
               /\ copies # <<>> => attached = 1
          ELSE /\ attached = 0
               /\ handler = "none")
    /\ [][handler # "none" => (handler' = handler /\ attached' = attached)]_vars

\* a fetch issues its COPY command on a connection that an earlier insert
\* has used: the handler was attached once
C19_Witness ==
    /\ client_file_transfer
    /\ op = "fetch"
    /\ dbTable # <<>>
    /\ copies # <<>>
    /\ attached = 1
    /\ handler = MONETDB_TEMPORARY_DIRECTORY

\* ---------------------------------------------------------------- C20
\* the call resolved its schema by infer_schema, which has returned or raised
InferSchemaExited ==
    /\ op = "fetch"
    /\ schema.kind = "none" \/ (schema.kind = "method" /\ schema.method = "infer")
    /\ tpc \notin {"idle", "ensure", "schema"}

\* C20: infer_schema prepares the query without executing it, reads the
\* declared result metadata and releases the prepared statement: after it
\* returns or raises, the statement it prepared is not allocated on the
\* connection.
C20_PreparedStatementReleased ==
    InferSchemaExited => prepared = 0

\* ---------------------------------------------------------------- C21
LimitOne == <<" ", "limit", " ", "1">>
\* the text q without its last four symbols
Rest(q) == SubSeq(q, 1, Len(q) - 4)
EndsWithLimitOne(q) == Len(q) >= 4 /\ SubSeq(q, Len(q) - 3, Len(q)) = LimitOne
IsPrefix(p, q) == Len(p) <= Len(q) /\ SubSeq(q, 1, Len(p)) = p
\* q ends with a row-limit clause (whitespace, limit, whitespace, digits)
EndsWithLimitClause(q) == \E i \in 1..Len(q) : LimitRegexMatchesAt(q, i)

\* C21 (as stated): get_limit_query strips a trailing semicolon and any
\* trailing row-limit clause and appends "limit 1": the result has exactly
\* one trailing limit clause, the rest of the query is unchanged, and
\* get_limit_query(get_limit_query(q)) = get_limit_query(q).
C21_LimitQueryIdempotent ==
    qpc = 2 =>
        /\ EndsWithLimitOne(probe)
        /\ IsPrefix(Rest(probe), query)
        /\ ~EndsWithLimitClause(Rest(probe))
        /\ probe2 = probe

\* C21 (amended): the result is a prefix of the query followed by
\* " limit 1"; a second application removes the whitespace left at the end
\* of that prefix and nothing else, so it changes nothing when the prefix
\* does not end with whitespace; and the result of the second application
\* is a fixed point.
C21_LimitQueryFixedPoint ==
    qpc = 2 =>
        /\ EndsWithLimitOne(probe)
        /\ IsPrefix(Rest(probe), query)
        /\ probe2 = RStrip(Rest(probe)) \o LimitOne
        /\ get_limit_query(probe2) = probe2

\* "a limit 5" became "a limit 1", and again "a limit 1"
C21_Witness ==
    /\ qpc = 2
    /\ query = <<"a", " ", "limit", " ", "5">>
    /\ probe = <<"a", " ", "limit", " ", "1">>
    /\ probe2 = probe

\* ---------------------------------------------------------------- C22
\* fetch_binary resolved its schema by infer_schema or fetch_schema, which returned
SchemaDiscovered ==
    /\ op = "fetch"
    /\ schema.kind # "dict"
    /\ tpc \notin {"idle", "ensure", "schema"}
    /\ raised.stage # "schema"

\* C22: both schema-discovery strategies return a schema with exactly one
\* entry per result column reported by the database, in the reported order,
\* so the number of staged output files equals the number of columns the
\* COPY command produces.
C22_SchemaEntryPerColumn ==
    SchemaDiscovered =>
        /\ Len(expanded_schema) = Len(dbQuery)
        /\ \A i \in 1..Len(expanded_schema) : expanded_schema[i].name = dbQuery[i].name
        /\ created => Len(column_files) = Len(dbQuery)

\* ---------------------------------------------------------------- C23
\* the supported wire type tags, and some others
SupportedTypeCodes ==
    {"tinyint", "smallint", "int", "bigint", "hugeint", "blob", "real", "double",
     "boolean", "timestamp", "timestamptz", "time", "date", "timetz", "varchar", "char",
     "json", "sec_interval", "day_interval", "month_interval", "decimal"}
OtherTypeCodes == {"uuid", "inet", "geometry", "", "TINYINT"}

\* C23: get_polars_type returns a logical type for every supported wire
\* type tag and raises for every other tag; a reported column of another tag
\* or of a type without binary codec (hugeint) makes the export fail with an
\* error; a column is only ever returned decoded by the codec of the type
\* its tag maps to.
C23_TypeMappingTotal ==
    /\ \A t \in SupportedTypeCodes \cup OtherTypeCodes :
          get_polars_type(t).ok <=> t \in SupportedTypeCodes
    /\ SchemaDiscovered =>
          /\ \A i \in 1..Len(dbQuery) : dbQuery[i].type_code \in SupportedTypeCodes
          /\ \A i \in 1..Len(expanded_schema) :
                \E j \in 1..Len(dbQuery) :
                    /\ dbQuery[j].name = expanded_schema[i].name
                    /\ expanded_schema[i].dtype = MONETDB_POLARS_TYPE_MAP[dbQuery[j].type_code]
    /\ (op = "fetch" /\ Exited /\ schema.kind # "dict"
          /\ \E i \in 1..Len(dbQuery) : dbQuery[i].type_code \in {"uuid", "hugeint"}) =>
          /\ raised # NoErr
          /\ returned = <<>>
    /\ (op = "fetch" /\ Exited /\ \E i \in 1..Len(expanded_schema) :
                                        expanded_schema[i].dtype = "Int128") =>
          /\ raised # NoErr
          /\ returned = <<>>
    /\ \A i \in 1..Len(returned) :
          /\ expanded_schema[i].dtype # "Int128"
          /\ schema.kind # "dict" =>
                expanded_schema[i].dtype = MONETDB_POLARS_TYPE_MAP[dbQuery[i].type_code]
          /\ returned[i][2] = read_binary_column_data(DbEncode(dbQuery[i]),
                                                      expanded_schema[i].dtype).val

\* the query returns a tinyint and a hugeint column: the schema is
\* discovered, and the export fails decoding the hugeint column
C23_Witness ==
    /\ op = "fetch"
    /\ Exited
    /\ schema.kind = "method"
    /\ dbQuery = <<ColA, ColX>>
    /\ expanded_schema = <<[name |-> "a", dtype |-> "Int8"], [name |-> "x", dtype |-> "Int128"]>>
    /\ Len(columns) = 1
    /\ raised = Err("ValueError", "decode")
    /\ returned = <<>>

\* ---------------------------------------------------------------- C24
\* C24: export step ordering.  The schema is resolved before the staging
\* directory is created, so a failed schema discovery or an invalid schema
\* argument leaves no staging directory behind; the COPY command is issued
\* exactly once, after the staging directory is created; column files are
\* decoded before the staging directory is deleted, all of them when no step
\* fails; the table is assembled only after the staging directory is deleted.
C24_ExportStepOrder ==
    /\ [](op = "fetch" =>
            /\ tpc \in {"ensure", "schema"} => (~created /\ temp_dir = "none")
            /\ raised.stage = "schema" => (~created /\ temp_dir = "none" /\ copies = <<>>)
            /\ created => (expanded_schema # <<>> \/ schema.kind = "dict" \/ dbQuery = <<>>)
            /\ Len(copies) <= 1
            /\ copies # <<>> => created
            /\ (created /\ tpc # "copy") => Len(copies) = 1
            /\ returned # <<>> => (rmtree_calls = 1 /\ StagingGone))
    /\ [][op = "fetch" =>
            /\ tpc = "schema" => (dirs' = dirs /\ files' = files)
            /\ columns' # columns =>
                  (rmtree_calls = 0 /\ temp_dir \in dirs /\ Len(copies) = 1)
            /\ (rmtree_calls' # rmtree_calls /\ pending = NoErr) =>
                  Len(columns) = Len(expanded_schema)
            /\ returned' # returned => (rmtree_calls = 1 /\ StagingGone)]_vars

\* a two-column table was returned after the staging directory was deleted
C24_Witness ==
    /\ op = "fetch"
    /\ Exited
    /\ raised = NoErr
    /\ Len(returned) = 2
    /\ Len(copies) = 1
    /\ rmtree_calls = 1
    /\ StagingGone

\* ---------------------------------------------------------------- C25
\* C25: import step ordering.  The staging directory is created before the
\* first column file is written; every one of the n column files is written
\* before the COPY command is issued; the COPY command is issued at most
\* once; commit happens only after a successful COPY; the staging directory
\* is deleted after the COPY command has returned or failed, never before it
\* (a call whose encoding fails issues no COPY command).
C25_ImportStepOrder ==
    /\ [](Inserting =>
            /\ column_files # <<>> => created
            /\ ~created => (temp_dir = "none" \/ raised.stage = "mkdir")
            /\ Len(copies) <= 1
            /\ copies # <<>> => Len(column_files) = Len(df)
            /\ tpc = "commit" => (Len(copies) = 1 /\ primary = NoErr)
            /\ committed => (Len(copies) = 1 /\ primary = NoErr)
            /\ rmtree_calls > 0 => (copies # <<>> \/ primary.stage = "encode"))
    /\ [][Inserting =>
            /\ files' # files => created'
            /\ copies' # copies =>
                  /\ rmtree_calls = 0
                  /\ temp_dir \in dirs
                  /\ \A i \in 1..Len(df) :
                        /\ i - 1 \in DOMAIN files[temp_dir]
                        /\ files[temp_dir][i - 1] =
                              write_binary_column_data(df[i].data, df[i].dtype).val
            /\ committed' # committed => (Len(copies) = 1 /\ primary = NoErr)
            /\ rmtree_calls' # rmtree_calls => tpc = "finally"]_vars

\* two column files were written, loaded by one COPY command and committed;
\* the staging directory was deleted afterwards
C25_Witness ==
    /\ op = "insert_tsdb"
    /\ Exited
    /\ raised = NoErr
    /\ Len(df) = 2
    /\ Len(copies) = 1
    /\ committed
    /\ rmtree_calls = 1
    /\ StagingGone

\* ---------------------------------------------------------------- C26
\* the number of rows of a DataFrame
Height(t) == IF t = <<>> THEN 0 ELSE Len(t[1].data)

\* the number of records the reader of the dtype finds in a file
RecordCount(data, dtype) == Len(read_binary_column_data(data, dtype).val)

\* every file that insert hands to the COPY command holds Height(df) records
FilesHoldHeight(t) ==
    \A i \in 1..Len(t) :
        /\ i - 1 \in DOMAIN files[temp_dir]
        /\ read_binary_column_data(files[temp_dir][i - 1], t[i].dtype).ok
        /\ RecordCount(files[temp_dir][i - 1], t[i].dtype) = Height(t)

\* a string of the DataFrame holds the character U+0000
HoldsNul(t) ==
    \E i \in 1..Len(t) :
        /\ t[i].dtype = "String"
        /\ \E k \in 1..Len(t[i].data) :
              /\ t[i].data[k] # None
              /\ \E c \in 1..Len(t[i].data[k][1]) : t[i].data[k][1][c] = 0

\* the file the decode loop reads next is fixed-width and its size is not a
\* multiple of the record size
NextFileRagged ==
    /\ tpc = "decode"
    /\ Len(columns) < Len(expanded_schema)
    /\ LET item == ZipSchemaFiles(Len(columns) + 1)
       IN /\ NumpyTypeGet(item.dtype) # NoDtype
          /\ Len(ReadPath(item.path)) % ItemSize(NumpyTypeGet(item.dtype)) # 0

ColumnsMismatch ==
    \E i, j \in 1..Len(columns) : Len(columns[i][2]) # Len(columns[j][2])

\* the export half: mismatched or ragged column files make fetch_binary fail,
\* and a returned table is the decoded columns, all of one length
ExportRowCountChecked ==
    /\ [](op = "fetch" =>
            /\ returned # <<>> =>
                  /\ returned = columns
                  /\ \A i, j \in 1..Len(returned) :
                        Len(returned[i][2]) = Len(returned[j][2])
            /\ (Exited /\ ColumnsMismatch) => (raised # NoErr /\ returned = <<>>)
            /\ primary # NoErr => returned = <<>>)
    /\ [][(op = "fetch" /\ NextFileRagged) =>
            (primary' = Err("ValueError", "decode") /\ columns' = columns)]_vars

\* C26 (as stated): every column file of a transfer holds the same number N
\* of records, and an export whose decoded columns differ in length, or whose
\* fixed-width file is not a whole number of records, fails and returns no
\* table.
C26_RowCountInvariant ==
    /\ [][(Inserting /\ copies' # copies) => FilesHoldHeight(df)]_vars
    /\ ExportRowCountChecked

\* C26 (amended): the files of an import hold N records each when no string
\* of the DataFrame holds the character U+0000; the export half as stated.
C26_RowCountInvariantWithoutNul ==
    /\ [][(Inserting /\ copies' # copies /\ ~HoldsNul(df)) => FilesHoldHeight(df)]_vars
    /\ ExportRowCountChecked

\* an export whose two decoded columns differ in length failed at the
\* assembly of the table
C26_Witness ==
    /\ op = "fetch"
    /\ Exited
    /\ Len(columns) = 2
    /\ ColumnsMismatch
    /\ raised = Err("ShapeError", "assemble")
    /\ returned = <<>>

\* ---------------------------------------------------------------- C27
\* C27: staging directories are never reused.  A transfer creates a directory
\* that did not exist; when the generated name is that of an existing
\* directory the transfer fails at creation and has written no file into it,
\* read none from it and not deleted it; a transfer changes and deletes only
\* the directory it created.
C27_StagingNeverReused ==
    /\ [](/\ raised = Err("FileExistsError", "mkdir") =>
              (/\ ~created
               /\ temp_dir \in dirs
               /\ files[temp_dir] = Leftover
               /\ column_files = <<>>
               /\ copies = <<>>
               /\ columns = <<>>
               /\ rmtree_calls = 0)
          /\ \A i \in 1..Len(column_files) :
                created /\ column_files[i].subdir[2] = temp_dir
          /\ \A d \in DirNames \ {temp_dir} :
                files[d] = IF d \in dirs THEN Leftover ELSE NoFiles
          /\ ~created => \A d \in DirNames :
                files[d] = IF d \in dirs THEN Leftover ELSE NoFiles)
    /\ [][/\ (created' /\ ~created) =>
              (temp_dir' \notin dirs /\ dirs' = dirs \cup {temp_dir'})
          /\ (tpc = "mkdir" /\ ~created') => (dirs' = dirs /\ files' = files)
          /\ \A d \in DirNames :
                /\ (d \in dirs /\ d \notin dirs') =>
                      (created /\ d = temp_dir /\ tpc = "finally")
                /\ files'[d] # files[d] => (created' /\ d = temp_dir')]_vars

\* the generated name was that of a directory left by something else: the
\* transfer failed at creation and the directory is as it was
C27_Witness ==
    /\ Exited
    /\ raised = Err("FileExistsError", "mkdir")
    /\ temp_dir \in dirs
    /\ files[temp_dir] = Leftover
    /\ ~created
    /\ rmtree_calls = 0

\* ---------------------------------------------------------------- C28
\* Boolean and integer columns: a null element is written as the sentinel of
\* the type (128; the minimum of the numpy dtype), the other elements as
\* their values
NullsWrittenAsSentinel ==
    /\ write_numeric_column(<<None, Some(TRUE)>>, "Boolean", NoDtype)
            = Ok(<<BOOLEAN_NULL, 1>>)
    /\ \A dtype \in {"Int8", "Int16", "Int32", "Int64"} :
          LET np == NumpyTypeGet(dtype)
              r == write_numeric_column(<<None, Some(NpInt(1, np))>>, dtype, NoDtype)
          IN /\ r.ok
             /\ RecordInt(r.val, 1, np) = IInfoMin(np)
             /\ RecordInt(r.val, 2, np) = NpInt(1, np)

\* C28 (as stated): the nulls of a Boolean, integer or Decimal column are
\* replaced with the sentinel before any other transform; write_decimal_column
\* substitutes the sentinel before it multiplies by 10^scale.
C28_NullFirstEncoding ==
    /\ NullsWrittenAsSentinel
    /\ DecimalWritten =>
          write_decimal_column_null_first(ccol, cmeta) = Ok(cfile)

\* C28 (amended): write_decimal_column multiplies by 10^scale and casts to
\* Int64 first, the nulls staying null; write_numeric_column then replaces
\* them with the minimum of the storage dtype, so that a null is written as
\* that sentinel itself and a value as its scaled integer in the storage dtype.
C28_NullFilledAfterScaling ==
    /\ NullsWrittenAsSentinel
    /\ DecimalWritten =>
          LET np == decimal_numpy_dtype(
                        OrDefault(cmeta.precision, MONETDB_DEFAULT_DECIMAL_PRECISION))
          IN \A k \in 1..Len(ccol) :
                RecordInt(cfile, k, np) =
                    IF IsNone(ccol[k]) THEN IInfoMin(np)
                    ELSE AsType(ToInt64(ScaledInt(ccol[k][1], DecimalCodecScale(cmeta),
                                                  cmeta.scale)), np)

\* a Decimal(2, s) column of one null was written as the byte 0x80
C28_Witness ==
    /\ DecimalWritten
    /\ cmeta.precision = 2
    /\ ccol = <<None>>
    /\ cfile = <<128>>

\* ---------------------------------------------------------------- C29
\* fetch_binary resolves its schema by infer_schema
InferChosen ==
    /\ op = "fetch"
    /\ tpc = "schema"
    /\ \/ schema.kind = "none"
       \/ schema.kind = "method" /\ schema.method = "infer"

\* C29: infer_schema leaves the other state of the connection unchanged;
\* every prepared statement that was allocated on the connection before the
\* call is still allocated after it.
C29_InferSchemaFrame ==
    [][InferChosen =>
          /\ prepared' >= prepared
          /\ UNCHANGED <<client_file_transfer, handler, attached>>]_vars

\* ---------------------------------------------------------------- C30
IsPrefixOf(a, b) == Len(a) <= Len(b) /\ a = SubSeq(b, 1, Len(a))

\* the writer applies the messages in the order of their puts
AppliedInEnqueueOrder ==
    /\ IsPrefixOf(applied, enqueued)
    /\ enqueued = applied \o queue

\* C30: with several processes on one request queue and one result queue,
\* insert_benchmark returns to each caller the id of the row inserted for its
\* own request, never the id of another caller's row; and the writer applies
\* the messages in the order in which they were enqueued.
C30_ResultIdCorrelation ==
    /\ \A p \in Callers :
          got[p] # 0 =>
              /\ got[p] \in 1..Len(benchmark)
              /\ benchmark[got[p]].args = p
    /\ AppliedInEnqueueOrder
====
